---- MODULE Spec2Model ----
(***************************************************************************)
(* A model of the speaker-diarization post-processing utilities of         *)
(* nemo/collections/asr/parts/utils/speaker_utils.py.                      *)
(*                                                                         *)
(* Time is counted in ticks of half of 1e-5 second, so that the rounding   *)
(* done by fl2int (decimals = 5) and by torch.round(.., decimals = 2) is   *)
(* a real rounding in the model (round half to even, as torch.round).      *)
(* Each component of the file has its own specification (SpecMerge, ...);  *)
(* the variables of the other components keep their idle values.           *)
(***************************************************************************)
EXTENDS Integers, Sequences, FiniteSets, TLC

VARIABLES
    \* merge_float_intervals
    ranges,     \* the argument `ranges`: a sequence of <<start, end>> in ticks
    margin,     \* the argument `margin`
    merged,     \* the returned list, in ticks
    mpc,        \* "call" before the call, "done" after it
    \* get_subsegments
    ss_args,    \* [offset, window, shift, duration], in ticks
    ss_ret,     \* [raised |-> BOOLEAN, subsegments |-> sequence of <<start, dur>>]
    ss_pc,      \* "call" before the call, "done" after it
    \* generate_speaker_timestamps and mixdown_msdd_preds
    ms_labels,  \* clus_labels: one label per frame, -1 for non-speech
    ms_preds,   \* msdd_preds of the first channel: [frame -> [speaker -> level]]
    ms_params,  \* threshold, max_overlap_count and **params
    ms_call,    \* what mixdown_msdd_preds was called with beyond these
    ms_A,       \* the speaker_assign_mat obtained, or the exception
    ms_ret,     \* what mixdown_msdd_preds returned
    ms_pc,      \* "call" | "generated" | "mixed"
    \* output emitter
    em_A,       \* speaker_assign_mat: [frame -> [speaker -> 0 | 1]]
    em_ts,      \* timestamps: one <<start, end>> per frame, in ticks
    em_lines,   \* the lines of generate_diarization_output_lines
    em_pc,      \* "call" before the call, "done" after it
    \* divide_and_conquer_clustering
    dc_in,      \* cluster_labels_infer, unit_clus_len and sync_score_thres
    dc_chunks,  \* clus_label_index: the VAD-positive labels, split
    dc_total,   \* total_fine_grained_labels
    dc_low,     \* the chunks whose sync score was below the threshold
    dc_out,     \* fine_grained_labels
    dc_pc,      \* "call" | "loop" | "done" | "raised"
    \* perform_clustering_embs
    ce_in,          \* the sessions of AUDIO_RTTM_MAP and the configuration
    base_scale_idx, \* the local of line 837
    ce_used,        \* per session reached, the scale index handed to get_ms_embs_and_ts
    no_references,  \* the local of line 836
    all_reference,  \* the sessions with an entry in all_reference
    all_hypothesis, \* the sessions with an entry in all_hypothesis
    ce_pc,          \* "call" | "loop" | "returned" | "raised"
    \* OnlineSegmentor
    os_self,    \* frame_start, buffer_start, buffer_end, cumulative_speech_labels
    os_cfg,     \* window and shift of the session
    os_lists,   \* the caller's three lists
    os_final,   \* the three lists at the last line of the latest call
    os_call,    \* the latest call: its input, branch and intermediate values
    os_calls,   \* calls made so far
    os_pc,      \* "idle" | "ready"
    \* parse_scale_configs
    sc_args,    \* window_lengths_in_sec, shift_lengths_in_sec, multiscale_weights
    sc_ret,     \* the outcome of the call
    sc_pc,      \* "call" before the call, "done" after it
    \* get_selected_channel_embs
    cs_args,    \* ch_sim_T of the input channels, max_mc_ch_num, the sort's tie order
    cs_ret,     \* the outcome of the call
    cs_pc,      \* "call" before the call, "done" after it
    \* one session through get_ms_embs_and_ts, the clusterer and
    \* get_cluster_labels_infer
    se_in,      \* vad_probs, scale_map[base_scale_idx], vad_threshold
    se_ms,      \* what get_ms_embs_and_ts returns
    se_labels,  \* cluster_labels of the clusterer
    se_infer,   \* cluster_labels_infer
    se_pc,      \* the statement the session is at
    \* the manifest, AUDIO_RTTM_MAP and the loop of make_rttm_with_overlap
    mf_in,      \* the lines of the manifest
    mf_map,     \* AUDIO_RTTM_MAP: the line each key was read from
    mf_seen,    \* the number of lines make_rttm_with_overlap has looked up
    mf_pc,      \* "call", "loop", "returned", or the error raised
    \* generate_cluster_labels and labels_to_rttmfile
    tn_in,      \* segment_ranges and cluster_labels
    tn_hyp,     \* diar_hyp
    tn_rttm,    \* the lines of the RTTM file
    tn_pc       \* "call", "labelled" or "written"

mergeVars == <<ranges, margin, merged, mpc>>

subsegVars == <<ss_args, ss_ret, ss_pc>>

msddVars == <<ms_labels, ms_preds, ms_params, ms_call, ms_A, ms_ret, ms_pc>>

emitVars == <<em_A, em_ts, em_lines, em_pc>>

dncVars == <<dc_in, dc_chunks, dc_total, dc_low, dc_out, dc_pc>>

clusVars == <<ce_in, base_scale_idx, ce_used, no_references, all_reference,
              all_hypothesis, ce_pc>>

onlineVars == <<os_self, os_cfg, os_lists, os_final, os_call, os_calls, os_pc>>

scaleVars == <<sc_args, sc_ret, sc_pc>>

chselVars == <<cs_args, cs_ret, cs_pc>>

sessVars == <<se_in, se_ms, se_labels, se_infer, se_pc>>

manVars == <<mf_in, mf_map, mf_seen, mf_pc>>

turnVars == <<tn_in, tn_hyp, tn_rttm, tn_pc>>

vars == <<mergeVars, subsegVars, msddVars, emitVars, dncVars, clusVars, onlineVars,
          scaleVars, chselVars, sessVars, manVars, turnVars>>

\* The idle values of each component's variables.
IdleMerge == ranges = <<>> /\ margin = 0 /\ merged = <<>> /\ mpc = "idle"

IdleSubseg == ss_args = <<>> /\ ss_ret = <<>> /\ ss_pc = "idle"

IdleEmit == em_A = <<>> /\ em_ts = <<>> /\ em_lines = <<>> /\ em_pc = "idle"

IdleDnc ==
    /\ dc_in = <<>> /\ dc_chunks = <<>> /\ dc_total = <<>> /\ dc_low = {}
    /\ dc_out = <<>> /\ dc_pc = "idle"

IdleClus ==
    /\ ce_in = <<>> /\ base_scale_idx = 0 /\ ce_used = <<>> /\ no_references = FALSE
    /\ all_reference = <<>> /\ all_hypothesis = <<>> /\ ce_pc = "idle"

IdleOnline ==
    /\ os_self = <<>> /\ os_cfg = <<>> /\ os_lists = <<>> /\ os_final = <<>>
    /\ os_call = <<>> /\ os_calls = 0 /\ os_pc = "off"

IdleScale == sc_args = <<>> /\ sc_ret = <<>> /\ sc_pc = "idle"

IdleChSel == cs_args = <<>> /\ cs_ret = <<>> /\ cs_pc = "idle"

IdleSess ==
    /\ se_in = <<>> /\ se_ms = <<>> /\ se_labels = <<>> /\ se_infer = <<>>
    /\ se_pc = "idle"

IdleMan == mf_in = <<>> /\ mf_map = <<>> /\ mf_seen = 0 /\ mf_pc = "idle"

IdleTurn == tn_in = <<>> /\ tn_hyp = <<>> /\ tn_rttm = <<>> /\ tn_pc = "idle"

IdleMsdd ==
    /\ ms_labels = <<>> /\ ms_preds = <<>> /\ ms_params = <<>> /\ ms_call = <<>>
    /\ ms_A = <<>> /\ ms_ret = <<>> /\ ms_pc = "idle"

-----------------------------------------------------------------------------
(* Generic helpers *)

Max(a, b) == IF a >= b THEN a ELSE b

Min(a, b) == IF a <= b THEN a ELSE b

RECURSIVE Pow10(_)
Pow10(n) == IF n <= 0 THEN 1 ELSE 10 * Pow10(n - 1)

\* Ticks in one unit of 10^-decimals second (a tick is half of 1e-5 s).
Ticks(decimals) == 2 * Pow10(5 - decimals)

\* torch.round of the non-negative rational n/q: round half to even.
RoundHalfEven(n, q) ==
    LET quot == n \div q
        rem  == n % q
    IN  IF 2 * rem < q THEN quot
        ELSE IF 2 * rem > q THEN quot + 1
        ELSE IF quot % 2 = 0 THEN quot ELSE quot + 1

\* The sequence s with x inserted before the first element greater than x.
RECURSIVE InsertSorted(_, _)
InsertSorted(s, x) ==
    IF s = <<>> THEN <<x>>
    ELSE IF x <= Head(s) THEN <<x>> \o s
    ELSE <<Head(s)>> \o InsertSorted(Tail(s), x)

\* torch.sort of a one-dimensional tensor, ascending.
RECURSIVE SortAsc(_)
SortAsc(s) == IF s = <<>> THEN <<>> ELSE InsertSorted(SortAsc(Tail(s)), Head(s))

SeqsUpTo(S, n) == UNION {[1..k -> S] : k \in 0..n}

-----------------------------------------------------------------------------
(* Interval algebra *)

is_overlap(rangeA, rangeB) == rangeA[2] > rangeB[1] /\ rangeB[2] > rangeA[1]

get_overlap_range(rangeA, rangeB) ==
    <<Max(rangeA[1], rangeB[1]), Min(rangeA[2], rangeB[2])>>

\* target_range is <<>> (the empty list) or a pair.
RECURSIVE get_sub_range_list(_, _)
get_sub_range_list(target_range, source_range_list) ==
    IF Len(target_range) = 0 \/ source_range_list = <<>> THEN <<>>
    ELSE LET s_range == Head(source_range_list)
             rest    == get_sub_range_list(target_range, Tail(source_range_list))
         IN  IF is_overlap(s_range, target_range)
             THEN <<get_overlap_range(s_range, target_range)>> \o rest
             ELSE rest

\* torch.sort(interval_tensor, dim=0): each column is sorted on its own.
SortColumns(intervals) ==
    LET starts == SortAsc([i \in 1..Len(intervals) |-> intervals[i][1]])
        ends   == SortAsc([i \in 1..Len(intervals) |-> intervals[i][2]])
    IN  [i \in 1..Len(intervals) |-> <<starts[i], ends[i]>>]

\* The sweep of merge_int_intervals from index i on, (start, end) being the
\* interval under construction.
RECURSIVE MergeSweep(_, _, _, _, _)
MergeSweep(intervals, i, start, end, merged_list) ==
    IF i > Len(intervals) THEN Append(merged_list, <<start, end>>)
    ELSE LET stt2 == intervals[i][1]
             end2 == intervals[i][2]
         IN  IF end >= stt2
             THEN MergeSweep(intervals, i + 1, start, Max(end2, end), merged_list)
             ELSE MergeSweep(intervals, i + 1, stt2, Max(end2, end),
                             Append(merged_list, <<start, end>>))

merge_int_intervals_unsorted(intervals_in) ==
    IF Len(intervals_in) = 0 THEN <<>>
    ELSE IF Len(intervals_in) = 1 THEN intervals_in
    ELSE MergeSweep(intervals_in, 2, intervals_in[1][1], intervals_in[1][2], <<>>)

merge_int_intervals(intervals_in) ==
    IF Len(intervals_in) = 0 THEN <<>>
    ELSE IF Len(intervals_in) = 1 THEN intervals_in
    ELSE LET intervals == SortColumns(intervals_in)
         IN  MergeSweep(intervals, 2, intervals[1][1], intervals[1][2], <<>>)

\* x in ticks; the result counts units of 10^-decimals second.
fl2int(x, decimals) == RoundHalfEven(x, Ticks(decimals))

\* x in units of 10^-decimals second; the result is in ticks.
int2fl(x, decimals) == x * Ticks(decimals)

\* ranges_int of merge_float_intervals: scaled, shifted by margin, and kept
\* only when stt < end.
RangesInt(rs, decimals, mrg) ==
    LET scaled == [i \in 1..Len(rs) |->
                     <<fl2int(rs[i][1], decimals) + mrg, fl2int(rs[i][2], decimals)>>]
        Keep(x) == x[1] < x[2]
    IN  SelectSeq(scaled, Keep)

\* merge_float_intervals without the subtraction of margin from the starts.
merge_float_intervals_shifted(rs, decimals, mrg) ==
    LET merged_ranges_int == merge_int_intervals(RangesInt(rs, decimals, mrg))
    IN  [i \in 1..Len(merged_ranges_int) |->
           <<int2fl(merged_ranges_int[i][1], decimals),
             int2fl(merged_ranges_int[i][2], decimals)>>]

merge_float_intervals(rs, decimals, mrg) ==
    LET merged_ranges_int == merge_int_intervals(RangesInt(rs, decimals, mrg))
    IN  [i \in 1..Len(merged_ranges_int) |->
           <<int2fl(merged_ranges_int[i][1] - mrg, decimals),
             int2fl(merged_ranges_int[i][2], decimals)>>]

DefaultDecimals == 5

DefaultMargin == 2

-----------------------------------------------------------------------------
(* Specification of merge_float_intervals as a pure function *)

MaxLen == 2     \* longest list handed to merge_float_intervals

MaxT == 4       \* time horizon, in units of 1e-5 second

MergeIntervals == {x \in (0..(2 * MaxT)) \X (0..(2 * MaxT)) : x[1] <= x[2]}

InitMerge ==
    /\ ranges \in SeqsUpTo(MergeIntervals, MaxLen)
    /\ margin \in 0..DefaultMargin
    /\ merged = <<>>
    /\ mpc = "call"
    /\ IdleSubseg /\ IdleMsdd /\ IdleEmit /\ IdleDnc /\ IdleClus /\ IdleOnline
    /\ IdleScale /\ IdleChSel /\ IdleSess /\ IdleMan /\ IdleTurn

CallMerge ==
    /\ mpc = "call"
    /\ merged' = merge_float_intervals(ranges, DefaultDecimals, margin)
    /\ mpc' = "done"
    /\ UNCHANGED <<ranges, margin, subsegVars, msddVars, emitVars, dncVars, clusVars, onlineVars, scaleVars, chselVars, sessVars, manVars, turnVars>>

NextMerge == CallMerge

SpecMerge == InitMerge /\ [][NextMerge]_vars

-----------------------------------------------------------------------------
(* Claims about merge_float_intervals *)

InRange(p, r) == r[1] <= p /\ p <= r[2]

\* The input interval r as fl2int sees it, back in ticks.
Rounded(r) == <<int2fl(fl2int(r[1], DefaultDecimals), DefaultDecimals),
                int2fl(fl2int(r[2], DefaultDecimals), DefaultDecimals)>>

\* r survives the margin shift of merge_float_intervals.
Survives(r, mrg) ==
    fl2int(r[1], DefaultDecimals) + mrg < fl2int(r[2], DefaultDecimals)

OnGrid(r) == Rounded(r) = r

\* The length of n units of 10^-decimals second, in ticks.
Units(n) == int2fl(n, DefaultDecimals)

\* C23: neighbouring integer ranges are merged: merge_int_intervals turns
\* [(1,10),(11,20)] into [(1,20)]; merge_float_intervals, on integer-scaled
\* values, merges [a,b] and [b+1,c] with margin 0, and [a,b] and [b,c] with
\* margin 1.
C23_NeighboursMerged ==
    (/\ mpc = "done" /\ Len(ranges) = 2
     /\ OnGrid(ranges[1]) /\ OnGrid(ranges[2])
     /\ Survives(ranges[1], margin) /\ Survives(ranges[2], margin)) =>
        /\ merge_int_intervals(<<(<<1, 10>>), (<<11, 20>>)>>) = <<(<<1, 20>>)>>
        /\ (margin = 0 /\ ranges[2][1] = ranges[1][2] + Units(1)) =>
              merged = <<(<<ranges[1][1], ranges[2][2]>>)>>
        /\ (margin = 1 /\ ranges[2][1] = ranges[1][2]) =>
              merged = <<(<<ranges[1][1], ranges[2][2]>>)>>

-----------------------------------------------------------------------------
(* Segment layout: get_subsegments *)

\* ceil(n / d) for d > 0, as np.ceil of the quotient.
CeilDiv(n, d) == -((-n) \div d)

\* min_subsegment_duration = 0.03 s, in ticks.
MinSubsegDur == 3 * Ticks(2)

SubsegDecimals == 2

\* torch.round(x, decimals): x in ticks, the result in ticks.
RoundTo(x, decimals) == RoundHalfEven(x, Ticks(decimals)) * Ticks(decimals)

\* `slices` with the quotient rounded down instead of up.
SlicesFloor(window, shift, duration) ==
    IF MinSubsegDur <= duration /\ duration < shift THEN 1
    ELSE ((duration - window) \div shift) + 1

\* `slices` of get_subsegments.
Slices(window, shift, duration) ==
    IF MinSubsegDur <= duration /\ duration < shift THEN 1
    ELSE CeilDiv(duration - window, shift) + 1

\* len(torch.arange(offset, slice_end, shift)).
ArangeLen(duration, shift) == IF duration <= 0 THEN 0 ELSE CeilDiv(duration, shift)

Raised == [raised |-> TRUE, subsegments |-> <<>>]

Returned(subs) == [raised |-> FALSE, subsegments |-> subs]

get_subsegments(offset, window, shift, duration) ==
    LET slice_end == offset + duration
        slices    == Slices(window, shift, duration)
        n_starts  == Min(slices, ArangeLen(duration, shift))
        start_col == [k \in 1..n_starts |-> offset + (k - 1) * shift]
        dur_col   == [k \in 1..slices |->
                        RoundTo(IF k = slices
                                THEN Min(slice_end - start_col[n_starts], window)
                                ELSE window, SubsegDecimals)]
        Keep(x)   == x[2] >= MinSubsegDur
    IN  IF slices = 1
        THEN IF Min(duration, window) >= MinSubsegDur
             THEN Returned(<<<<offset, Min(duration, window)>>>>)
             ELSE Returned(<<>>)
        \* torch.ones(slices) with slices < 0, start_col[-1] of an empty
        \* tensor, or torch.stack of columns of different lengths
        ELSE IF slices <= 0 \/ n_starts # slices THEN Raised
        ELSE Returned(SelectSeq([k \in 1..slices |-> <<start_col[k], dur_col[k]>>], Keep))

\* The slice count of the commented-out lines 1478-1479 and of get_subsegments_.
SlicesClamped(window, shift, duration) ==
    IF CeilDiv(duration - window, shift) < 0 THEN 1
    ELSE CeilDiv(duration - window, shift) + 1

\* Inputs are multiples of half a centisecond.
Grain == Ticks(SubsegDecimals) \div 2

MaxShift == 7       \* largest shift, in grains

MaxWindow == 9      \* largest window, in grains

MaxDur == 14        \* largest duration, in grains

SubsegOffsets == {0, 3 * Grain}

\* The documented single-scale case: scale (1.5 s, 0.75 s), speech range [0, 5].
SingleScaleCase ==
    [offset |-> 0, window |-> 300 * Grain, shift |-> 150 * Grain, duration |-> 1000 * Grain]

InitSubseg ==
    /\ \/ \E o \in SubsegOffsets, w \in 1..MaxWindow, s \in 1..MaxShift, d \in 0..MaxDur :
             ss_args = [offset |-> o, window |-> w * Grain, shift |-> s * Grain,
                        duration |-> d * Grain]
       \/ ss_args = SingleScaleCase
    /\ ss_ret = <<>>
    /\ ss_pc = "call"
    /\ IdleMerge /\ IdleMsdd /\ IdleEmit /\ IdleDnc /\ IdleClus /\ IdleOnline
    /\ IdleScale /\ IdleChSel /\ IdleSess /\ IdleMan /\ IdleTurn

CallSubseg ==
    /\ ss_pc = "call"
    /\ ss_ret' = get_subsegments(ss_args.offset, ss_args.window, ss_args.shift,
                                 ss_args.duration)
    /\ ss_pc' = "done"
    /\ UNCHANGED <<ss_args, mergeVars, msddVars, emitVars, dncVars, clusVars, onlineVars, scaleVars, chselVars, sessVars, manVars, turnVars>>

NextSubseg == CallSubseg

SpecSubseg == InitSubseg /\ [][NextSubseg]_vars

\* The subsegments s cover [from, to] up to a final piece shorter than
\* min_subsegment_duration, starting at from and leaving no hole.
CoversUpToFinalPiece(s, from, to) ==
    /\ Len(s) > 0
    /\ s[1][1] = from
    /\ \A k \in 1..(Len(s) - 1) : s[k + 1][1] <= s[k][1] + s[k][2]
    /\ to - (s[Len(s)][1] + s[Len(s)][2]) < MinSubsegDur

\* C2 as stated (for windows that are themselves not shorter than the minimum):
\* for window > shift > 0 and duration >= min_subsegment_duration
\* the call returns normally a non-empty list that starts at offset and covers
\* [offset, offset + duration] apart from a final piece shorter than the minimum.
C2_Coverage ==
    (/\ ss_pc = "done"
     /\ ss_args.window > ss_args.shift
     /\ RoundTo(ss_args.window, SubsegDecimals) >= MinSubsegDur
     /\ ss_args.duration >= MinSubsegDur) =>
        /\ ~ss_ret.raised
        /\ CoversUpToFinalPiece(ss_ret.subsegments, ss_args.offset,
                                ss_args.offset + ss_args.duration)


\* The starts of the subsegments returned, in grains.
StartsInGrains(subs) == [k \in DOMAIN subs |-> subs[k][1] \div Grain]

-----------------------------------------------------------------------------
(* MSDD post-processor: generate_speaker_timestamps *)

\* Speaker columns of msdd_preds (model_spk_num = 2).
Speakers == {0, 1}

\* The activation 1.0 in the model's fixed-point unit.
ActivationOne == 4

\* Sigmoid activations that occur in the model's msdd_preds.
Levels == {0, 1, 2}

\* A NaN entry of a float tensor.
NaN == 0 - 1

IsNaN(x) == x = NaN

\* a > b as torch.topk and torch.sort order floats: NaN is the greatest value.
GreaterOrNaN(a, b) == (IsNaN(a) /\ ~IsNaN(b)) \/ (~IsNaN(a) /\ ~IsNaN(b) /\ a > b)

HasNaN(mat) == \E t \in DOMAIN mat : \E m \in DOMAIN mat[t] : IsNaN(mat[t][m])

\* torch.topk leaves the order of equal values open: "low" prefers the lower
\* column, "high" the higher one.
TieBreaks == {"low", "high"}

Before(n, m, tie) == IF tie = "low" THEN n < m ELSE n > m

\* The position of column m in the row sorted by descending value.
RowRank(row, m, tie) ==
    Cardinality({n \in Speakers :
                    GreaterOrNaN(row[n], row[m])
                        \/ (row[n] = row[m] /\ Before(n, m, tie))})

\* moc_inds of torch.topk for one row.
TopKInds(row, k, tie) == {m \in Speakers : RowRank(row, m, tie) < k}

\* topk_vals[:, j] for one row.
TopKVal(row, j, tie) == row[CHOOSE m \in Speakers : RowRank(row, m, tie) = j]

\* get_top_k_for_each_row without the product with top_k_mask.
get_top_k_unmasked(logit_mat, k_count, tie) ==
    [masked |-> logit_mat,
     gap    |-> [t \in DOMAIN logit_mat |->
                    IF k_count > 1
                    THEN <<TopKVal(logit_mat[t], 1, tie), TopKVal(logit_mat[t], 0, tie)>>
                    ELSE <<0, 1>>]]

\* The pair (masked_logit_mat, logit_gap); logit_gap is kept as the fraction
\* <<numerator, denominator>>.
get_top_k_for_each_row(logit_mat, k_count, tie) ==
    [masked |-> [t \in DOMAIN logit_mat |->
                   [m \in Speakers |->
                      \* top_k_mask * logit_mat: 0 * NaN is NaN
                      IF m \in TopKInds(logit_mat[t], k_count, tie)
                            \/ IsNaN(logit_mat[t][m])
                      THEN logit_mat[t][m] ELSE 0]],
     gap    |-> [t \in DOMAIN logit_mat |->
                   IF k_count > 1
                   THEN <<TopKVal(logit_mat[t], 1, tie), TopKVal(logit_mat[t], 0, tie)>>
                   ELSE <<0, 1>>]]

\* logit_gap < threshold for the fraction g; a NaN (0/0, or NaN/x) compares
\* False.
\* one is the activation 1.0 in the unit of the matrix at hand.
GapBelow(g, threshold, one) ==
    /\ ~IsNaN(g[1]) /\ ~IsNaN(g[2])
    /\ g[2] > 0 /\ g[1] * one < threshold * g[2]

RECURSIVE SumOver(_, _)
SumOver(f, S) ==
    IF S = {} THEN 0
    ELSE LET x == CHOOSE y \in S : TRUE IN f[x] + SumOver(f, S \ {x})

ColSum(mat, m) == SumOver([t \in DOMAIN mat |-> mat[t][m]], DOMAIN mat)

TotalSum(mat) == SumOver([m \in Speakers |-> ColSum(mat, m)], Speakers)

\* The columns with spk_time_each < overlap_infer_spk_limit; the limit is the
\* fraction lim[1]/lim[2], and with an all-zero matrix or a NaN entry
\* spk_time_each is NaN.
BelowSpkLimit(mat, lim) ==
    {m \in Speakers :
        /\ ~HasNaN(mat)
        /\ TotalSum(mat) > 0 /\ ColSum(mat, m) * lim[2] < lim[1] * TotalSum(mat)}

\* torch.max over a row; a NaN entry makes the maximum NaN.
RowMax(row) ==
    IF \E m \in Speakers : IsNaN(row[m]) THEN NaN
    ELSE CHOOSE x \in {row[m] : m \in Speakers} : \A m \in Speakers : row[m] <= x

PositiveCount(row) == Cardinality({m \in Speakers : row[m] > 0})

ActiveSpkInds(clus_labels) ==
    {clus_labels[t] : t \in DOMAIN clus_labels} \ {-1}

\* msdd_preds after lines 2027-2031.
MaskSpksWithClus(clus_labels, msdd_preds, params) ==
    IF params.mask_spks_with_clus
    THEN [t \in DOMAIN msdd_preds |->
            [m \in Speakers |->
                IF m \in ActiveSpkInds(clus_labels) THEN msdd_preds[t][m] ELSE 0]]
    ELSE msdd_preds

\* The local max_overlap_count after lines 2035-2038.
OverlapCount(clus_labels, max_overlap_count, params) ==
    IF ~params.infer_overlap THEN 1
    ELSE Min(Cardinality(ActiveSpkInds(clus_labels)), max_overlap_count)

\* msdd_preds_masked_ovl: the top-k activations, zeroed in the columns below
\* overlap_infer_spk_limit and in the rows with logit_gap < threshold.
MaskedOvl(clus_labels, msdd_preds, threshold, max_overlap_count, params) ==
    LET preds == MaskSpksWithClus(clus_labels, msdd_preds, params)
        k     == OverlapCount(clus_labels, max_overlap_count, params)
        topk  == get_top_k_for_each_row(preds, k, params.tie)
        excl  == BelowSpkLimit(msdd_preds, params.overlap_infer_spk_limit)
    IN  [t \in DOMAIN preds |->
           [m \in Speakers |->
              IF m \in excl \/ GapBelow(topk.gap[t], threshold, params.one)
              THEN 0 ELSE topk.masked[t][m]]]

\* msdd_preds_top1_per_seg
Top1PerSeg(clus_labels, msdd_preds, params) ==
    get_top_k_for_each_row(MaskSpksWithClus(clus_labels, msdd_preds, params),
                           1, params.tie).masked

GstRaised == [raised |-> TRUE, mat |-> <<>>]

\* The speaker_assign_mat returned by generate_speaker_timestamps for a
\* two-dimensional msdd_preds, or the exception it raises.
generate_speaker_timestamps(clus_labels, msdd_preds, threshold, max_overlap_count, params) ==
    LET preds == MaskSpksWithClus(clus_labels, msdd_preds, params)
        k     == OverlapCount(clus_labels, max_overlap_count, params)
        topk  == get_top_k_for_each_row(preds, k, params.tie)
        top1  == Top1PerSeg(clus_labels, msdd_preds, params)
        ovl   == MaskedOvl(clus_labels, msdd_preds, threshold, max_overlap_count, params)
        Silenced(t) ==
            IF params.ts_vad_threshold <= 0
            THEN clus_labels[t] <= -1
            ELSE ~IsNaN(RowMax(preds[t])) /\ RowMax(preds[t]) < params.ts_vad_threshold
    IN  \* active_spk_inds is only bound under mask_spks_with_clus (line 2028)
        IF params.infer_overlap /\ ~params.mask_spks_with_clus THEN GstRaised
        \* topk_vals[:, 0] of a [T, 0] tensor (line 2068)
        ELSE IF k < 1 THEN GstRaised
        \* line 2041
        ELSE IF \E t \in DOMAIN preds : PositiveCount(topk.masked[t]) # k THEN GstRaised
        \* line 2051
        ELSE IF \E t \in DOMAIN preds : PositiveCount(top1[t]) # 1 THEN GstRaised
        ELSE [raised |-> FALSE,
              mat    |-> [t \in DOMAIN preds |->
                            [m \in Speakers |->
                               IF Silenced(t) THEN 0
                               ELSE IF top1[t][m] > 0 \/ ovl[t][m] # 0 THEN 1 ELSE 0]]]

-----------------------------------------------------------------------------
(* MSDD post-processor: mixdown_msdd_preds *)

\* Channel ch_idx of the multi-channel msdd_preds of the model: the odd
\* channels carry ms_preds, the even ones carry it with the two speaker
\* columns exchanged.
Channel(preds, ch_idx) ==
    IF ch_idx % 2 = 1 THEN preds
    ELSE [t \in DOMAIN preds |-> [m \in Speakers |-> preds[t][1 - m]]]

\* msdd_preds.mean(dim=2), kept as the sum over the channels: the unit of the
\* result is 1/num_ch of the unit of msdd_preds.
ChannelSum(preds, num_ch) ==
    [t \in DOMAIN preds |->
        [m \in Speakers |->
            SumOver([c \in 1..num_ch |-> Channel(preds, c)[t][m]], 1..num_ch)]]

ModesKnown == {"pre_mean", "post_mean", "post_max"}

StartsWithPost(mode) == mode \in {"post_mean", "post_max", "post_min"}

StartsWithPre(mode) == mode \in {"pre_mean", "pre_max"}

MixRaised == [raised |-> TRUE, mat |-> <<>>, den |-> 1]

\* speaker_assign_mat of mixdown_msdd_preds at line 2301, as the matrix of
\* numerators mat over the common denominator den; num_ch = 0 stands for a
\* two-dimensional msdd_preds.
MixdownAssignMat(clus_labels, preds, num_ch, mode, params) ==
    LET PerCh(c) == generate_speaker_timestamps(clus_labels, Channel(preds, c),
                        params.threshold, params.max_overlap_count, params)
        mixed    == generate_speaker_timestamps(clus_labels, ChannelSum(preds, num_ch),
                        params.threshold * num_ch, params.max_overlap_count,
                        [params EXCEPT !.ts_vad_threshold = @ * num_ch,
                                       !.one = @ * num_ch])
    IN  \* line 2300 hands `offset` over as msdd_preds: a float has no shape
        IF num_ch = 0 THEN MixRaised
        ELSE IF StartsWithPost(mode)
        THEN IF \E c \in 1..num_ch : PerCh(c).raised THEN MixRaised
             ELSE IF mode = "post_max"
             THEN [raised |-> FALSE, den |-> 1,
                   mat |-> [t \in DOMAIN preds |-> [m \in Speakers |->
                              IF \E c \in 1..num_ch : PerCh(c).mat[t][m] = 1
                              THEN 1 ELSE 0]]]
             ELSE IF mode = "post_mean"
             THEN [raised |-> FALSE, den |-> num_ch,
                   mat |-> [t \in DOMAIN preds |-> [m \in Speakers |->
                              SumOver([c \in 1..num_ch |-> PerCh(c).mat[t][m]],
                                      1..num_ch)]]]
             \* neither reduction runs: speaker_assign_mat is still the
             \* matrix of the last channel of the loop
             ELSE [raised |-> FALSE, den |-> 1, mat |-> PerCh(num_ch).mat]
        ELSE IF StartsWithPre(mode)
        THEN \* msdd_preds_mixed is bound for pre_mean only
             IF mode # "pre_mean" \/ mixed.raised THEN MixRaised
             ELSE [raised |-> FALSE, den |-> 1, mat |-> mixed.mat]
        ELSE MixRaised

\* What mixdown_msdd_preds returns: "raised", or "spk_ts" for the per-speaker
\* intervals of ts_vad_post_processing.  Without use_ts_vad line 2309 reads
\* the local `timestamps` before it is bound.
MixdownReturn(assign, use_ts_vad) ==
    IF assign.raised \/ ~use_ts_vad THEN "raised" ELSE "spk_ts"

MaxFrames == 2      \* frames of msdd_preds

MaxCh == 2          \* channels of a multi-channel msdd_preds

\* The default of max_overlap_count; a max_overlap_count key of params reaches
\* the parameter through **params.
DefaultMaxOverlapCount == 2

\* Threshold values, in the unit of ActivationOne.
Thresholds == {2}

TsVadThresholds == {0, 2}

\* overlap_infer_spk_limit as a fraction
SpkLimits == {<<0, 1>>, <<1, 2>>}

Modes == ModesKnown \cup {"pre_max", "post_min", "mean"}

MsddParams ==
    [threshold : Thresholds, max_overlap_count : 1..DefaultMaxOverlapCount,
     infer_overlap : BOOLEAN, mask_spks_with_clus : BOOLEAN,
     overlap_infer_spk_limit : SpkLimits, ts_vad_threshold : TsVadThresholds,
     tie : TieBreaks, one : {ActivationOne}]

InitMsddInputs(P, L, frames) ==
    /\ ms_labels \in [1..frames -> {-1} \cup Speakers]
    /\ ms_preds \in [1..frames -> [Speakers -> L]]
    /\ ms_params \in P
    /\ ms_call = <<>> /\ ms_A = <<>> /\ ms_ret = <<>>
    /\ ms_pc = "call"
    /\ IdleMerge /\ IdleSubseg /\ IdleEmit /\ IdleDnc /\ IdleClus /\ IdleOnline
    /\ IdleScale /\ IdleChSel /\ IdleSess /\ IdleMan /\ IdleTurn

InitGst == InitMsddInputs(MsddParams, Levels \cup {NaN}, MaxFrames)

\* The calls that reach get_top_k_for_each_row (active_spk_inds is bound
\* whenever infer_overlap reads it), on the outputs of a sigmoid: positive
\* activations, or NaN.  max_overlap_count varies where it is read.
InitTopK ==
    InitMsddInputs({p \in MsddParams :
                        /\ p.infer_overlap => p.mask_spks_with_clus
                        /\ ~p.infer_overlap => p.max_overlap_count = DefaultMaxOverlapCount
                        /\ p.tie = "low" /\ p.overlap_infer_spk_limit[1] = 0},
                   (Levels \ {0}) \cup {NaN}, MaxFrames)

\* A direct call generate_speaker_timestamps(clus_labels, msdd_preds, threshold,
\* max_overlap_count, **params) with a two-dimensional msdd_preds.
CallGenerate ==
    /\ ms_pc = "call"
    /\ LET r == generate_speaker_timestamps(ms_labels, ms_preds, ms_params.threshold,
                                            ms_params.max_overlap_count, ms_params)
       IN  ms_A' = [raised |-> r.raised, mat |-> r.mat, den |-> 1]
    /\ ms_pc' = "generated"
    /\ UNCHANGED <<ms_labels, ms_preds, ms_params, ms_call, ms_ret>>
    /\ UNCHANGED <<mergeVars, subsegVars, emitVars, dncVars, clusVars, onlineVars, scaleVars, chselVars, sessVars, manVars, turnVars>>

NextGst == CallGenerate

SpecGst == InitGst /\ [][NextGst]_vars

SpecTopK == InitTopK /\ [][NextGst]_vars

InitMix ==
    InitMsddInputs({p \in MsddParams : p.tie = "low" /\ p.overlap_infer_spk_limit[1] = 0},
                   Levels, MaxFrames)

CallMixdown ==
    /\ ms_pc = "call"
    /\ \E num_ch \in 0..MaxCh, mode \in Modes, use_ts_vad \in BOOLEAN :
          /\ ms_call' = [num_ch |-> num_ch, mode |-> mode, use_ts_vad |-> use_ts_vad]
          /\ ms_A' = MixdownAssignMat(ms_labels, ms_preds, num_ch, mode, ms_params)
          /\ ms_ret' = MixdownReturn(ms_A', use_ts_vad)
    /\ ms_pc' = "mixed"
    /\ UNCHANGED <<ms_labels, ms_preds, ms_params>>
    /\ UNCHANGED <<mergeVars, subsegVars, emitVars, dncVars, clusVars, onlineVars, scaleVars, chselVars, sessVars, manVars, turnVars>>

NextMix == CallMixdown

SpecMix == InitMix /\ [][NextMix]_vars

-----------------------------------------------------------------------------
(* Claims on the MSDD post-processor *)

\* A_ovl as documented: the cell's top-k activation, after the zeroing of
\* lines 2043 and 2048, is at least the threshold.
A_ovl(t, m) ==
    MaskedOvl(ms_labels, ms_preds, ms_params.threshold,
              ms_params.max_overlap_count, ms_params)[t][m] >= ms_params.threshold

A_top1(t, m) == Top1PerSeg(ms_labels, ms_preds, ms_params)[t][m] > 0

FrameSilenced(t) ==
    IF ms_params.ts_vad_threshold <= 0 THEN ms_labels[t] <= -1
    ELSE LET step_max == RowMax(MaskSpksWithClus(ms_labels, ms_preds, ms_params)[t])
         IN  ~IsNaN(step_max) /\ step_max < ms_params.ts_vad_threshold

\* C3: the matrix generate_speaker_timestamps returns is, on every frame the
\* final VAD gate lets through, A_top1 OR A_ovl with A_ovl set only where the
\* top-k activation is >= theta and logit_gap >= theta; a speaker that is not
\* the top-1 speaker of a frame is never active with an activation below theta.
C3_ThresholdedOverlap ==
    (ms_pc = "generated" /\ ~ms_A.raised) =>
        \A t \in DOMAIN ms_preds : \A m \in Speakers :
            /\ ~FrameSilenced(t) =>
                  (ms_A.mat[t][m] = 1 <=> (A_top1(t, m) \/ A_ovl(t, m)))
            /\ (ms_A.mat[t][m] = 1 /\ ~A_top1(t, m)) =>
                  ms_preds[t][m] >= ms_params.threshold

RowSum(row) == SumOver(row, Speakers)

\* C4: for pre_mean, post_mean and post_max and any number of channels, every
\* entry of the matrix mixdown_msdd_preds obtains is 0 or 1 and every row sums
\* to at most max_overlap_count.
C4_BinaryBoundedRows ==
    (/\ ms_pc = "mixed"
     /\ ms_call.num_ch >= 1
     /\ ms_call.mode \in ModesKnown
     /\ ~ms_A.raised) =>
        \A t \in DOMAIN ms_A.mat :
            /\ \A m \in Speakers : ms_A.mat[t][m] \in {0, ms_A.den}
            /\ RowSum(ms_A.mat[t]) <= ms_params.max_overlap_count * ms_A.den

\* k, the masked msdd_preds and the top-k matrix of the call in this state.
GstK == OverlapCount(ms_labels, ms_params.max_overlap_count, ms_params)

GstPreds == MaskSpksWithClus(ms_labels, ms_preds, ms_params)

GstTopK == get_top_k_for_each_row(GstPreds, GstK, ms_params.tie).masked

\* The call has reached get_top_k_for_each_row with k >= 1 (line 2038).
TopKReached ==
    /\ ms_pc = "generated"
    /\ ~(ms_params.infer_overlap /\ ~ms_params.mask_spks_with_clus)
    /\ GstK >= 1

\* The k entries torch.topk selects in row t are all positive.
SelectedPositive(t) ==
    \A m \in TopKInds(GstPreds[t], GstK, ms_params.tie) : GstPreds[t][m] > 0

NonZeroCount(row) == Cardinality({m \in Speakers : row[m] # 0})

\* C19 as stated: the top-k matrix has exactly k non-zero entries in every
\* row, and with k = 1 the returned matrix has row sum 1 at every frame with
\* label > -1, whatever ts_vad_threshold and threshold are.
C19_Original ==
    TopKReached =>
        /\ \A t \in DOMAIN ms_preds : NonZeroCount(GstTopK[t]) = GstK
        /\ (~ms_A.raised /\ GstK = 1) =>
              \A t \in DOMAIN ms_preds :
                 ms_labels[t] > -1 => RowSum(ms_A.mat[t]) = 1

\* C19, amended: every row of the top-k matrix has at most k positive
\* entries, and exactly k when the k selected entries are all positive; the
\* call raises when some row falls short; with k = 1 a returned matrix has row
\* sum 1 at every frame the final gate passes and 0 at every other frame.
C19_Amended ==
    TopKReached =>
        LET topk == GstTopK
            k    == GstK
        IN  /\ \A t \in DOMAIN ms_preds :
                  LET count    == PositiveCount(topk[t])
                      selected == SelectedPositive(t)
                  IN  /\ count <= k
                      /\ count = k <=> selected
                      /\ ~selected => ms_A.raised
            /\ (~ms_A.raised /\ k = 1) =>
                  \A t \in DOMAIN ms_preds :
                     RowSum(ms_A.mat[t]) = IF FrameSilenced(t) THEN 0 ELSE 1

C19_Witness ==
    /\ TopKReached /\ ~ms_A.raised /\ GstK = 1
    /\ ms_params.ts_vad_threshold > 0
    /\ \E t \in DOMAIN ms_preds : ms_labels[t] > -1 /\ FrameSilenced(t)

AllPositive == \A t \in DOMAIN ms_preds : \A m \in Speakers : ms_preds[t][m] > 0

\* C20: generate_speaker_timestamps keeps k activations per frame, with
\* k = min(active speakers, max_overlap_count) under infer_overlap and k = 1
\* without it, for both settings of mask_spks_with_clus and also when no frame
\* has a label > -1.
C20_KeepsKPerFrame ==
    (ms_pc = "generated" /\ AllPositive) =>
        /\ ~ms_A.raised
        /\ \A t \in DOMAIN ms_preds : PositiveCount(GstTopK[t]) = GstK

\* C27: for a single-channel msdd_preds of shape [T, M] (num_ch = 0 in the
\* model), mixdown_msdd_preds returns the speaker intervals of the
\* single-channel matrix generate_speaker_timestamps(clus_labels, msdd_preds),
\* with use_ts_vad on and off.
C27_SingleChannelReturns ==
    (ms_pc = "mixed" /\ ms_call.num_ch = 0) =>
        LET single == generate_speaker_timestamps(ms_labels, ms_preds,
                          ms_params.threshold, ms_params.max_overlap_count, ms_params)
        IN  ~single.raised =>
               /\ ms_ret # "raised"
               /\ ~ms_A.raised /\ ms_A.mat = single.mat

\* C13: with multi-channel msdd_preds, mixdown_msdd_preds fails with an error
\* for every mc_late_fusion_mode other than pre_mean, post_mean and post_max,
\* other 'pre*' and 'post*' values included; it never returns intervals.
C13_UnknownModeRaises ==
    (/\ ms_pc = "mixed"
     /\ ms_call.num_ch >= 1
     /\ ms_call.mode \notin ModesKnown) => ms_ret = "raised"

\* C12: generate_speaker_timestamps rejects every msdd_preds that contains a
\* NaN: it raises an error and returns no activation matrix.
C12_NaNRejected ==
    (ms_pc = "generated" /\ HasNaN(ms_preds)) => ms_A.raised

-----------------------------------------------------------------------------
(* Output emitter *)

\* The elements of seq at the positions in keep, in order.
RECURSIVE SelectIdx(_, _, _)
SelectIdx(seq, keep, i) ==
    IF i > Len(seq) THEN <<>>
    ELSE (IF i \in keep THEN <<seq[i]>> ELSE <<>>) \o SelectIdx(seq, keep, i + 1)

\* speaker_assignment[spk_idx]: the timestamps of the rows whose bit is set.
generate_speaker_assignment_intervals(speaker_assign_mat, timestamps) ==
    [m \in Speakers |->
        SelectIdx(timestamps,
                  {i \in DOMAIN speaker_assign_mat : speaker_assign_mat[i][m] # 0}, 1)]

TicksPerMs == Ticks(3)

\* f"{x:.3f}": the value in milliseconds.
Format3f(x) == RoundHalfEven(x, TicksPerMs)

\* The lines of one speaker: "start end speaker_m" for each merged interval.
SpeakerLines(ts_intervals, m) ==
    LET merged_ts_intervals == merge_float_intervals(ts_intervals, DefaultDecimals,
                                                     DefaultMargin)
    IN  [j \in 1..Len(merged_ts_intervals) |->
            [start |-> Format3f(merged_ts_intervals[j][1]),
             end   |-> Format3f(merged_ts_intervals[j][2]),
             spk   |-> m]]

generate_diarization_output_lines(speaker_timestamps) ==
    SpeakerLines(speaker_timestamps[0], 0) \o SpeakerLines(speaker_timestamps[1], 1)

EmFrames == 3       \* frames of the activation matrix

\* Frame hops and frame lengths, in ticks: 1 s and 10 ms hops; a frame is as
\* long as the hop (abutting frames), longer by 1e-5 s, 2e-5 s or 1 ms
\* (overlapping frames), or 1 ms shorter.
Hops == {1000 * TicksPerMs, 10 * TicksPerMs}

LenOverHop == {0, Ticks(5), 2 * Ticks(5), TicksPerMs, -TicksPerMs}

Origins == {0, 2000 * TicksPerMs}

FrameTimestamps(origin, hop, len) ==
    [t \in 1..EmFrames |-> <<origin + (t - 1) * hop, origin + (t - 1) * hop + len>>]

InitEmit ==
    /\ em_A \in [1..EmFrames -> [Speakers -> {0, 1}]]
    /\ \E origin \in Origins, hop \in Hops, d \in LenOverHop :
          em_ts = FrameTimestamps(origin, hop, hop + d)
    /\ em_lines = <<>>
    /\ em_pc = "call"
    /\ IdleMerge /\ IdleSubseg /\ IdleMsdd /\ IdleDnc /\ IdleClus /\ IdleOnline
    /\ IdleScale /\ IdleChSel /\ IdleSess /\ IdleMan /\ IdleTurn

CallEmit ==
    /\ em_pc = "call"
    /\ em_lines' = generate_diarization_output_lines(
                        generate_speaker_assignment_intervals(em_A, em_ts))
    /\ em_pc' = "done"
    /\ UNCHANGED <<em_A, em_ts, mergeVars, subsegVars, msddVars, dncVars, clusVars, onlineVars, scaleVars, chselVars, sessVars, manVars, turnVars>>

NextEmit == CallEmit

SpecEmit == InitEmit /\ [][NextEmit]_vars

Abutting == \A t \in 1..(EmFrames - 1) : em_ts[t][2] = em_ts[t + 1][1]

\* Frames a..b are a maximal run of frames on which speaker m is active.
ActiveRun(m, a, b) ==
    /\ a <= b
    /\ \A t \in a..b : em_A[t][m] = 1
    /\ (a > 1 => em_A[a - 1][m] = 0)
    /\ (b < EmFrames => em_A[b + 1][m] = 0)

\* C7: when the frames abut, every maximal run of frames on which a speaker is
\* active comes out as one line from the start of its first frame to the end
\* of its last frame.
C7_AbuttingRunsMerged ==
    (em_pc = "done" /\ Abutting) =>
        \A m \in Speakers : \A a, b \in 1..EmFrames :
            ActiveRun(m, a, b) =>
                \E j \in 1..Len(em_lines) :
                    em_lines[j] = [start |-> Format3f(em_ts[a][1]),
                                   end   |-> Format3f(em_ts[b][2]),
                                   spk   |-> m]

-----------------------------------------------------------------------------
(* Divide-and-conquer refinement: divide_and_conquer_clustering *)

\* The speaker labels of the model; -1 is non-speech.
Labels == {0, 1, 2, 3}

\* x[x > -1]
VadPositive(labels) == SelectSeq(labels, LAMBDA l : l > -1)

\* torch.split(x, unit_clus_len, dim=0); an empty x gives one empty chunk.
TorchSplit(x, unit_clus_len) ==
    IF Len(x) = 0 THEN << <<>> >>
    ELSE [c \in 1..CeilDiv(Len(x), unit_clus_len) |->
            SubSeq(x, (c - 1) * unit_clus_len + 1, Min(c * unit_clus_len, Len(x)))]

SeqRange(x) == {x[i] : i \in DOMAIN x}

SetMin(S) == CHOOSE x \in S : \A y \in S : x <= y

SetMax(S) == CHOOSE x \in S : \A y \in S : x >= y

\* The labels of Y renumbered to 0..K-1 in the order of their values.
get_minimal_indices(Y) ==
    [i \in DOMAIN Y |-> Cardinality({l \in SeqRange(Y) : l < Y[i]})]

Matches(Y1, Y2) == Cardinality({i \in DOMAIN Y1 : Y1[i] = Y2[i]})

LabelPerms == {f \in [Labels -> Labels] : \A a, b \in Labels : f[a] = f[b] => a = b}

\* The relabellings of Y_new by a permutation of the labels that agree with
\* Y_old on as many positions as any permutation does.
stitch_cluster_labels(Y_old, Y_new) ==
    LET relabelled == {[i \in DOMAIN Y_new |-> f[Y_new[i]]] : f \in LabelPerms}
        best       == SetMax({Matches(Y_old, Y) : Y \in relabelled})
    IN  {Y \in relabelled : Matches(Y_old, Y) = best}

\* sync_score < sync_score_thres, the threshold being thres[1]/thres[2].
SyncBelow(clus_label_vad, new_label_index, thres) ==
    Matches(clus_label_vad, new_label_index) * thres[2] < thres[1] * Len(clus_label_vad)

\* new_label_index of line 517.
GlobalFallback(chunk) ==
    LET offset         == SetMin(SeqRange(chunk))
        clus_label_vad == get_minimal_indices(chunk)
    IN  [i \in DOMAIN chunk |-> clus_label_vad[i] + offset]

RECURSIVE Concat(_)
Concat(seqs) == IF seqs = <<>> THEN <<>> ELSE Head(seqs) \o Concat(Tail(seqs))

\* fine_grained_labels: -1 everywhere, the refined labels at the VAD-positive
\* positions in order.
Reinsert(cluster_labels_infer, vad_fine_grained_labels) ==
    [i \in DOMAIN cluster_labels_infer |->
        IF cluster_labels_infer[i] > -1
        THEN vad_fine_grained_labels[
                Cardinality({j \in 1..i : cluster_labels_infer[j] > -1})]
        ELSE -1]

MaxLabelsLen == 4   \* length of cluster_labels_infer

UnitClusLens == {2, 3}

DefaultSyncScoreThres == <<3, 4>>

SyncScoreThresholds == {DefaultSyncScoreThres, <<1, 2>>}

InitDnc ==
    /\ dc_in \in [labels : [1..MaxLabelsLen -> {-1} \cup Labels],
                  unit_clus_len : UnitClusLens,
                  sync_score_thres : SyncScoreThresholds]
    /\ dc_chunks = <<>> /\ dc_total = <<>> /\ dc_low = {} /\ dc_out = <<>>
    /\ dc_pc = "call"
    /\ IdleMerge /\ IdleSubseg /\ IdleMsdd /\ IdleEmit /\ IdleClus /\ IdleOnline
    /\ IdleScale /\ IdleChSel /\ IdleSess /\ IdleMan /\ IdleTurn

DncOthers == <<mergeVars, subsegVars, msddVars, emitVars, clusVars, onlineVars, scaleVars, chselVars, sessVars, manVars, turnVars>>

\* Lines 487-495: the split into chunks.
DncSplit ==
    /\ dc_pc = "call"
    /\ dc_chunks' = TorchSplit(VadPositive(dc_in.labels), dc_in.unit_clus_len)
    /\ dc_pc' = "loop"
    /\ UNCHANGED <<dc_in, dc_total, dc_low, dc_out, DncOthers>>

\* One iteration of the loop of line 496 on a chunk with labels; the clusterer
\* returns any labelling with oracle_num_speakers labels.
DncChunk ==
    /\ dc_pc = "loop"
    /\ Len(dc_total) < Len(dc_chunks)
    /\ LET sample_id == Len(dc_total) + 1
           chunk     == dc_chunks[sample_id]
       IN  /\ chunk # <<>>
           /\ \E _cluster_labels \in [DOMAIN chunk -> 0..SetMax(SeqRange(chunk))] :
              \E new_label_index \in
                    stitch_cluster_labels(get_minimal_indices(chunk), _cluster_labels) :
                 IF SyncBelow(get_minimal_indices(chunk), new_label_index,
                              dc_in.sync_score_thres)
                 THEN /\ dc_total' = Append(dc_total, GlobalFallback(chunk))
                      /\ dc_low' = dc_low \cup {sample_id}
                 ELSE /\ dc_total' = Append(dc_total, new_label_index)
                      /\ dc_low' = dc_low
    /\ UNCHANGED <<dc_in, dc_chunks, dc_out, dc_pc, DncOthers>>

\* The max() of an empty chunk at line 499.
DncRaise ==
    /\ dc_pc = "loop"
    /\ Len(dc_total) < Len(dc_chunks)
    /\ dc_chunks[Len(dc_total) + 1] = <<>>
    /\ dc_pc' = "raised"
    /\ UNCHANGED <<dc_in, dc_chunks, dc_total, dc_low, dc_out, DncOthers>>

\* Lines 520-523.
DncReturn ==
    /\ dc_pc = "loop"
    /\ Len(dc_total) = Len(dc_chunks)
    /\ dc_out' = Reinsert(dc_in.labels, Concat(dc_total))
    /\ dc_pc' = "done"
    /\ UNCHANGED <<dc_in, dc_chunks, dc_total, dc_low, DncOthers>>

NextDnc == DncSplit \/ DncChunk \/ DncRaise \/ DncReturn

SpecDnc == InitDnc /\ [][NextDnc]_vars

\* The positions of cluster_labels_infer that chunk sample_id covers.
ChunkPositions(sample_id) ==
    {i \in DOMAIN dc_in.labels :
        /\ dc_in.labels[i] > -1
        /\ CeilDiv(Cardinality({j \in 1..i : dc_in.labels[j] > -1}),
                   dc_in.unit_clus_len) = sample_id}

\* C5: at the positions of every chunk whose sync score was below
\* sync_score_thres the output carries the input labels, whatever labels the
\* chunk holds.
C5_LowSyncKeepsGlobal ==
    dc_pc = "done" =>
        \A sample_id \in dc_low : \A i \in ChunkPositions(sample_id) :
            dc_out[i] = dc_in.labels[i]

\* C29: the output is as long as cluster_labels_infer, is -1 exactly where
\* the input is -1, and elsewhere carries a global label present in the same
\* chunk of the input; a chunk whose local clustering reproduces the global
\* partition exactly (sync score 1) comes back unchanged.
C29_LabelsStayInChunk ==
    dc_pc = "done" =>
        /\ Len(dc_out) = Len(dc_in.labels)
        /\ \A i \in DOMAIN dc_in.labels : dc_out[i] = -1 <=> dc_in.labels[i] = -1
        /\ \A sample_id \in DOMAIN dc_chunks : \A i \in ChunkPositions(sample_id) :
              /\ dc_out[i] \in SeqRange(dc_chunks[sample_id])
              /\ (/\ sample_id \notin dc_low
                  /\ dc_total[sample_id] = get_minimal_indices(dc_chunks[sample_id])) =>
                    dc_out[i] = dc_in.labels[i]

-----------------------------------------------------------------------------
(* Clustering driver: perform_clustering_embs *)

MaxSessions == 3        \* sessions of AUDIO_RTTM_MAP

MaxScaleIdx == 2        \* clustering_scale_index ranges over 0..MaxScaleIdx

\* The data errors of a session: every channel scores non-positive in
\* get_selected_channel_embs (line 681), or the cluster labels and the
\* timestamps differ in length (line 929).
DataErrors == {"silent", "mismatch"}

\* What the driver reads of a session: whether scale_map.shape[1] exceeds
\* long_audio_thres, whether the manifest gives num_speakers, whether
\* rttm_filepath names an existing file, and the data error its tensors carry.
Sessions ==
    [long : BOOLEAN, has_num_speakers : BOOLEAN, has_rttm : BOOLEAN,
     data_error : {"none"} \cup DataErrors]

ClusConfigs ==
    [clustering_scale_index : 0..MaxScaleIdx,
     oracle_num_speakers : BOOLEAN,
     get_rttm_with_the_finest_scale : BOOLEAN]

InitClusEmbs ==
    /\ ce_in \in [sessions : SeqsUpTo(Sessions, MaxSessions), cfg : ClusConfigs]
    /\ base_scale_idx = 0 /\ ce_used = <<>> /\ no_references = FALSE
    /\ all_reference = <<>> /\ all_hypothesis = <<>>
    /\ ce_pc = "call"
    /\ IdleMerge /\ IdleSubseg /\ IdleMsdd /\ IdleEmit /\ IdleDnc /\ IdleOnline
    /\ IdleScale /\ IdleChSel /\ IdleSess /\ IdleMan /\ IdleTurn

ClusOthers == <<mergeVars, subsegVars, msddVars, emitVars, dncVars, onlineVars, scaleVars, chselVars, sessVars, manVars, turnVars>>

\* Lines 830-842, for a non-empty embeddings_dict.
ClusEnter ==
    /\ ce_pc = "call"
    /\ ce_in.sessions # <<>>
    /\ base_scale_idx' = ce_in.cfg.clustering_scale_index
    /\ no_references' = FALSE
    /\ ce_pc' = "loop"
    /\ UNCHANGED <<ce_in, ce_used, all_reference, all_hypothesis, ClusOthers>>

\* Line 831: ValueError("Empty embeddings_dict.").
ClusEnterEmpty ==
    /\ ce_pc = "call"
    /\ ce_in.sessions = <<>>
    /\ ce_pc' = "raised"
    /\ UNCHANGED <<ce_in, base_scale_idx, ce_used, no_references, all_reference,
                   all_hypothesis, ClusOthers>>

\* The scale index after lines 857-860.
ScaleIdxFor(session, idx) == IF session.long THEN Max(0, idx - 1) ELSE idx

\* The first statement of the loop body that raises for the session: the
\* ValueError of get_selected_channel_embs called at line 872, the ValueError
\* at line 886, the read of the deleted ms_ts_scaled at line 923, or the
\* ValueError at line 929.
RaiseCause(session, cfg) ==
    IF session.data_error = "silent" THEN "silent"
    ELSE IF cfg.oracle_num_speakers /\ ~session.has_num_speakers THEN "oracle"
    ELSE IF ~cfg.get_rttm_with_the_finest_scale THEN "unbound"
    ELSE IF session.data_error = "mismatch" THEN "mismatch"
    ELSE "none"

SessionRaises(session, cfg) == RaiseCause(session, cfg) # "none"

\* One iteration of the loop of line 844 that runs to its end.
ClusSession ==
    /\ ce_pc = "loop"
    /\ Len(ce_used) < Len(ce_in.sessions)
    /\ LET uniq_id == Len(ce_used) + 1
           session == ce_in.sessions[uniq_id]
           idx     == ScaleIdxFor(session, base_scale_idx)
       IN  /\ ~SessionRaises(session, ce_in.cfg)
           /\ base_scale_idx' = idx
           /\ ce_used' = Append(ce_used, idx)
           /\ all_hypothesis' = Append(all_hypothesis, uniq_id)
           /\ IF session.has_rttm /\ ~no_references
              THEN /\ all_reference' = Append(all_reference, uniq_id)
                   /\ no_references' = no_references
              ELSE /\ all_reference' = <<>>
                   /\ no_references' = TRUE
    /\ UNCHANGED <<ce_in, ce_pc, ClusOthers>>

\* One iteration that raises after get_ms_embs_and_ts has run.
ClusSessionRaise ==
    /\ ce_pc = "loop"
    /\ Len(ce_used) < Len(ce_in.sessions)
    /\ LET session == ce_in.sessions[Len(ce_used) + 1]
           idx     == ScaleIdxFor(session, base_scale_idx)
       IN  /\ SessionRaises(session, ce_in.cfg)
           /\ base_scale_idx' = idx
           /\ ce_used' = Append(ce_used, idx)
    /\ ce_pc' = "raised"
    /\ UNCHANGED <<ce_in, no_references, all_reference, all_hypothesis, ClusOthers>>

\* Line 942.
ClusReturn ==
    /\ ce_pc = "loop"
    /\ Len(ce_used) = Len(ce_in.sessions)
    /\ ce_pc' = "returned"
    /\ UNCHANGED <<ce_in, base_scale_idx, ce_used, no_references, all_reference,
                   all_hypothesis, ClusOthers>>

NextClusEmbs ==
    ClusEnter \/ ClusEnterEmpty \/ ClusSession \/ ClusSessionRaise \/ ClusReturn

SpecClusEmbs == InitClusEmbs /\ [][NextClusEmbs]_vars

\* C6: every session is clustered at clustering_scale_index when it is short
\* and at max(0, clustering_scale_index - 1) when it is long, whichever
\* sessions came before it.
C6_ScaleIndexPerSession ==
    \A i \in DOMAIN ce_used :
        ce_used[i] = IF ce_in.sessions[i].long
                     THEN Max(0, ce_in.cfg.clustering_scale_index - 1)
                     ELSE ce_in.cfg.clustering_scale_index

Finished == ce_pc \in {"raised", "returned"}

Hypothesised == {all_hypothesis[i] : i \in DOMAIN all_hypothesis}

Referenced == {all_reference[i] : i \in DOMAIN all_reference}

\* C14: a data error in one session (all channels silent, or a length
\* mismatch between cluster labels and timestamps) fails that session only:
\* when the batch has ended, every session without an error has been
\* processed and has its hypothesis.
C14_DataErrorFailsOneSession ==
    (/\ Finished
     /\ \A i \in DOMAIN ce_in.sessions :
            RaiseCause(ce_in.sessions[i], ce_in.cfg) \in {"none"} \cup DataErrors) =>
        \A i \in DOMAIN ce_in.sessions :
            RaiseCause(ce_in.sessions[i], ce_in.cfg) = "none" => i \in Hypothesised

\* C15: a session without an existing reference RTTM gets no reference entry,
\* and every other session, whose RTTM file exists, still has its entry in
\* all_reference when the function returns.
C15_ReferencePerSession ==
    ce_pc = "returned" =>
        Referenced = {i \in DOMAIN ce_in.sessions : ce_in.sessions[i].has_rttm}

\* The ValueError of line 886 has ended the loop.
OracleRaised ==
    /\ ce_pc = "raised"
    /\ ce_used # <<>>
    /\ RaiseCause(ce_in.sessions[Len(ce_used)], ce_in.cfg) = "oracle"

\* C16: oracle_num_speakers with a null num_speakers aborts the run before
\* any session work: when the ValueError is raised, no session has been
\* thresholded or clustered and no hypothesis has been written.
C16_OracleAbortsBeforeWork ==
    OracleRaised => (ce_used = <<>> /\ all_hypothesis = <<>>)

\* perform_clustering_session_embs for one session: the index its scale is
\* clustered at, whether a statement raises, and whether the hypothesis and
\* the reference entry are returned.  Line 793 reads ms_ts_scaled before the
\* del of line 795, so no setting of get_rttm_with_the_finest_scale raises.
perform_clustering_session_embs(session, cfg) ==
    LET cause == IF session.data_error = "silent" THEN "silent"
                 ELSE IF cfg.oracle_num_speakers /\ ~session.has_num_speakers THEN "oracle"
                 ELSE IF session.data_error = "mismatch" THEN "mismatch"
                 ELSE "none"
    IN  [base_scale_idx |-> ScaleIdxFor(session, cfg.clustering_scale_index),
         raised         |-> cause # "none",
         hyp_entry      |-> cause = "none",
         ref_entry      |-> cause = "none" /\ session.has_rttm]

\* C30: perform_clustering_embs on a map of one session and
\* perform_clustering_session_embs on that session end alike, for
\* get_rttm_with_the_finest_scale true and false: both raise or both return,
\* at the same scale index, the hypothesis of the session and the same
\* reference entry.
C30_BatchEqualsSession ==
    (Finished /\ Len(ce_in.sessions) = 1) =>
        LET one == perform_clustering_session_embs(ce_in.sessions[1], ce_in.cfg)
        IN  /\ (ce_pc = "raised") = one.raised
            /\ ce_used = <<one.base_scale_idx>>
            /\ (Hypothesised = {1}) = one.hyp_entry
            /\ (Referenced = {1}) = one.ref_entry

-----------------------------------------------------------------------------
(* Online segmentation: the helpers of OnlineSegmentor *)

\* The pair (speech_label_for_new_segments, cumulative_speech_labels).
get_speech_labels_for_update(frame_start, buffer_end, vad_timestamps, cumulative_speech_labels, cursor_for_old_segments) ==
    LET update_overlap_range ==
            IF cursor_for_old_segments < frame_start
            THEN <<cursor_for_old_segments, frame_start>> ELSE <<>>
        new_incoming_speech_labels ==
            get_sub_range_list(<<frame_start, buffer_end>>, vad_timestamps)
        update_overlap_speech_labels ==
            get_sub_range_list(update_overlap_range, cumulative_speech_labels)
    IN  [for_new    |-> merge_float_intervals(
                            update_overlap_speech_labels \o new_incoming_speech_labels,
                            DefaultDecimals, 0),
         cumulative |-> merge_float_intervals(
                            cumulative_speech_labels \o new_incoming_speech_labels,
                            DefaultDecimals, 0)]

\* `count` of get_new_cursor_for_update when the loop has looked at the last
\* count ranges: it grows while the next range from the end reaches
\* frame_start, and reading past the first range is an IndexError (-1).
RECURSIVE CursorCount(_, _, _)
CursorCount(frame_start, segment_range_ts, count) ==
    IF count >= Len(segment_range_ts) THEN -1
    ELSE IF frame_start <= segment_range_ts[Len(segment_range_ts) - count][2]
         THEN CursorCount(frame_start, segment_range_ts, count + 1)
         ELSE count

get_new_cursor_for_update(frame_start, segment_range_ts) ==
    LET count == IF Len(segment_range_ts) > 0
                 THEN CursorCount(frame_start, segment_range_ts, 0) ELSE 0
    IN  IF count < 0
        THEN [raised |-> TRUE, cursor_for_old_segments |-> frame_start, cursor_index |-> 0]
        ELSE [raised |-> FALSE,
              cursor_for_old_segments |->
                  IF count = 0 THEN frame_start
                  ELSE segment_range_ts[Len(segment_range_ts) - count + 1][1],
              cursor_index |-> Len(segment_range_ts) - count]

\* Seconds and samples share the tick as their unit: sample_rate is one
\* sample per tick.  The signal sig[start_idx:end_idx] is kept as the pair
\* <<first sample, number of samples>>.
get_target_sig(sig_len, start_sec, end_sec, slice_length) ==
    LET start_idx == start_sec
        end_idx   == Min(end_sec, slice_length + start_idx)
    IN  <<Min(start_idx, sig_len),
          Max(0, Min(end_idx, sig_len) - Min(start_idx, sig_len))>>

SlicesRaised == [raised |-> TRUE, ind_offset |-> 0, sigs |-> <<>>, ranges |-> <<>>,
                 inds |-> <<>>]

\* get_online_segments_from_slices from subsegment i on, acc holding the
\* lists and ind_offset built so far.
RECURSIVE SlicesFrom(_, _, _, _, _, _, _)
SlicesFrom(sig_len, buffer_start, buffer_end, subsegments, window, i, acc) ==
    IF i > Len(subsegments) THEN acc
    ELSE LET start_sec  == subsegments[i][1]
             dur        == subsegments[i][2]
             buffer_len == buffer_end - buffer_start
             end_sec    == Min(start_sec + dur, buffer_len)
             signal     == get_target_sig(sig_len, start_sec, end_sec, window)
         IN  IF start_sec > buffer_end
             THEN SlicesFrom(sig_len, buffer_start, buffer_end, subsegments, window,
                             i + 1, acc)
             \* "len(signal) is zero"
             ELSE IF signal[2] = 0 THEN SlicesRaised
             ELSE SlicesFrom(sig_len, buffer_start, buffer_end, subsegments, window, i + 1,
                    [raised     |-> FALSE,
                     ind_offset |-> acc.ind_offset + 1,
                     sigs       |-> Append(acc.sigs, signal),
                     ranges     |-> Append(acc.ranges,
                                      <<buffer_start + start_sec, buffer_start + end_sec>>),
                     inds       |-> Append(acc.inds, acc.ind_offset + 1)])

get_online_segments_from_slices(sig_len, buffer_start, buffer_end, subsegments, ind_offset, window) ==
    SlicesFrom(sig_len, buffer_start, buffer_end, subsegments, window, 1,
               [raised |-> FALSE, ind_offset |-> ind_offset, sigs |-> <<>>,
                ranges |-> <<>>, inds |-> <<>>])

\* The loop of get_online_subsegments_from_buffer from range idx on.
RECURSIVE BufferFrom(_, _, _, _, _, _, _, _)
BufferFrom(sig_len, buffer_start, buffer_end, speech_labels_for_update, window, shift, idx, acc) ==
    IF idx > Len(speech_labels_for_update) THEN acc
    ELSE LET range_spl   == speech_labels_for_update[idx]
             range_offs  == <<range_spl[1] - buffer_start, range_spl[2] - buffer_start>>
             range_t     == <<Max(0, range_offs[1]), range_offs[2]>>
             subsegments == get_subsegments(range_t[1], window, shift,
                                            range_t[2] - range_t[1])
             got == get_online_segments_from_slices(sig_len, buffer_start, buffer_end,
                        subsegments.subsegments, acc.ind_offset, window)
         IN  IF subsegments.raised \/ got.raised THEN SlicesRaised
             ELSE BufferFrom(sig_len, buffer_start, buffer_end, speech_labels_for_update,
                    window, shift, idx + 1,
                    [raised     |-> FALSE,
                     ind_offset |-> got.ind_offset,
                     sigs       |-> acc.sigs \o got.sigs,
                     ranges     |-> acc.ranges \o got.ranges,
                     inds       |-> acc.inds \o got.inds])

\* get_online_subsegments_from_buffer numbering the new segments from 0 again
\* instead of from the last index of segment_indexes.
get_online_subsegments_from_buffer_restart(buffer_start, buffer_end, speech_labels_for_update, sig_len, segment_indexes, window, shift) ==
    BufferFrom(sig_len, buffer_start, buffer_end, speech_labels_for_update, window, shift, 1,
               [raised |-> FALSE, ind_offset |-> -1,
                sigs |-> <<>>, ranges |-> <<>>, inds |-> <<>>])

get_online_subsegments_from_buffer(buffer_start, buffer_end, speech_labels_for_update, sig_len, segment_indexes, window, shift) ==
    BufferFrom(sig_len, buffer_start, buffer_end, speech_labels_for_update, window, shift, 1,
               [raised |-> FALSE,
                ind_offset |-> IF Len(segment_indexes) > 0
                               THEN segment_indexes[Len(segment_indexes)] ELSE -1,
                sigs |-> <<>>, ranges |-> <<>>, inds |-> <<>>])

-----------------------------------------------------------------------------
(* Online segmentation: OnlineSegmentor.run_online_segmentation *)

\* A quarter of a second, in ticks: the grid of the streaming session.
Quarter == 25000 * Ticks(5)

MaxTime == 4        \* the session ends at MaxTime quarters

MaxCalls == 3       \* calls of run_online_segmentation in a session

\* How far buffer_start lies before frame_start, in quarters; the frame is one
\* quarter long and ends the buffer.
BufferLeads == {1, 2}

\* (window, shift) of the session, in quarters.
WindowShifts == {<<2, 1>>, <<3, 2>>}

\* The VAD output for a buffer: at most two speech intervals between the
\* quarters lo and hi, in order and apart.
VadLists(lo, hi) ==
    LET Ivs == {x \in (lo..hi) \X (lo..hi) : x[1] < x[2]}
        Q(x) == <<x[1] * Quarter, x[2] * Quarter>>
    IN  {<<>>} \cup {<<Q(x)>> : x \in Ivs}
        \cup {<<Q(p[1]), Q(p[2])>> : p \in {q \in Ivs \X Ivs : q[1][2] < q[2][1]}}

EmptyLists == [segment_raw_audio |-> <<>>, segment_range_ts |-> <<>>,
               segment_indexes |-> <<>>]

\* __init__, and a session that starts with three empty lists.
InitOnline ==
    /\ os_self = [frame_start |-> 0, buffer_start |-> 0, buffer_end |-> 0,
                  cumulative_speech_labels |-> <<>>]
    /\ \E ws \in WindowShifts :
          os_cfg = [window |-> ws[1] * Quarter, shift |-> ws[2] * Quarter]
    /\ os_lists = EmptyLists /\ os_final = EmptyLists
    /\ os_call = [branch |-> "none"]
    /\ os_calls = 0
    /\ os_pc = "idle"
    /\ IdleMerge /\ IdleSubseg /\ IdleMsdd /\ IdleEmit /\ IdleDnc /\ IdleClus
    /\ IdleScale /\ IdleChSel /\ IdleSess /\ IdleMan /\ IdleTurn

OnlineOthers == <<mergeVars, subsegVars, msddVars, emitVars, dncVars, clusVars, scaleVars, chselVars, sessVars, manVars, turnVars>>

\* The streaming driver moves the buffer before a call.
SetBuffer ==
    /\ os_pc = "idle"
    /\ os_calls < MaxCalls
    /\ \E f \in 0..(MaxTime - 1), lead \in BufferLeads :
          os_self' = [os_self EXCEPT !.frame_start = f * Quarter,
                                     !.buffer_start = (f - lead) * Quarter,
                                     !.buffer_end = (f + 1) * Quarter]
    /\ os_pc' = "ready"
    /\ UNCHANGED <<os_cfg, os_lists, os_final, os_call, os_calls, OnlineOthers>>

Truncate(lists, cursor_index) ==
    [segment_raw_audio |-> SubSeq(lists.segment_raw_audio, 1, cursor_index),
     segment_range_ts  |-> SubSeq(lists.segment_range_ts, 1, cursor_index),
     segment_indexes   |-> SubSeq(lists.segment_indexes, 1, cursor_index)]

Extend(lists, got) ==
    [segment_raw_audio |-> lists.segment_raw_audio \o got.sigs,
     segment_range_ts  |-> lists.segment_range_ts \o got.ranges,
     segment_indexes   |-> lists.segment_indexes \o got.inds]

\* One call run_online_segmentation(audio_buffer, vad_timestamps, *lists,
\* window, shift): what it leaves behind.  `held` is the caller's lists after
\* the call (slicing at lines 2516-2518 rebinds the locals to new lists, so
\* only the first-step branch extends the caller's lists), `final` the locals
\* at line 2547.
run_online_segmentation(self, vad_timestamps, lists, cfg) ==
    LET sig_len == self.buffer_end - self.buffer_start
        first   == Len(lists.segment_raw_audio) = 0 /\ Len(vad_timestamps) > 0
        cur     == get_new_cursor_for_update(self.frame_start, lists.segment_range_ts)
        \* lines 2523-2529: cumulative_speech_labels is passed in the place of
        \* vad_timestamps and vad_timestamps in the place of
        \* cumulative_speech_labels
        upd     == get_speech_labels_for_update(self.frame_start, self.buffer_end,
                       self.cumulative_speech_labels, vad_timestamps,
                       cur.cursor_for_old_segments)
        speech_labels_for_update == IF first THEN vad_timestamps ELSE upd.for_new
        cumulative == IF first THEN vad_timestamps ELSE upd.cumulative
        kept    == IF first THEN lists ELSE Truncate(lists, cur.cursor_index)
        got     == get_online_subsegments_from_buffer(self.buffer_start, self.buffer_end,
                       speech_labels_for_update, sig_len, kept.segment_indexes,
                       cfg.window, cfg.shift)
        base    == [vad_timestamps |-> vad_timestamps,
                    prev_cumulative |-> self.cumulative_speech_labels,
                    frame_start |-> self.frame_start, buffer_end |-> self.buffer_end,
                    passed |-> lists]
    IN  IF self.buffer_start < 0
        THEN [raised |-> FALSE, cumulative |-> self.cumulative_speech_labels,
              held |-> lists, final |-> lists, call |-> [branch |-> "skip"] @@ base]
        ELSE IF ~first /\ cur.raised
        THEN [raised |-> TRUE, cumulative |-> self.cumulative_speech_labels,
              held |-> lists, final |-> lists, call |-> [branch |-> "raised"] @@ base]
        ELSE IF got.raised
        THEN [raised |-> TRUE, cumulative |-> cumulative,
              held |-> lists, final |-> lists, call |-> [branch |-> "raised"] @@ base]
        ELSE [raised |-> FALSE, cumulative |-> cumulative,
              held |-> IF first THEN Extend(lists, got) ELSE lists,
              final |-> Extend(kept, got),
              call |-> [branch |-> IF first THEN "first" ELSE "update",
                        cursor_for_old_segments |-> cur.cursor_for_old_segments,
                        cursor_index |-> cur.cursor_index,
                        speech_labels_for_update |-> speech_labels_for_update] @@ base]

\* The lists a call is handed: the caller's own, or the ones the previous
\* call ended with.
Passed == {os_lists, os_final}

\* The state a call leaves behind.
Leave(r) ==
    /\ os_self' = [os_self EXCEPT !.cumulative_speech_labels = r.cumulative]
    /\ os_lists' = r.held
    /\ os_final' = r.final
    /\ os_call' = r.call
    /\ os_calls' = os_calls + 1
    /\ os_pc' = "idle"
    /\ UNCHANGED <<os_cfg, OnlineOthers>>

\* A call that runs to its last line.
RunOnlineSegmentation ==
    /\ os_pc = "ready"
    /\ \E vad_timestamps \in VadLists(Max(0, os_self.buffer_start \div Quarter),
                                      os_self.buffer_end \div Quarter),
          lists \in Passed :
          LET r == run_online_segmentation(os_self, vad_timestamps, lists, os_cfg)
          IN  ~r.raised /\ Leave(r)

\* A call that raises; the driver may go on with the lists it holds.
RunOnlineSegmentationRaise ==
    /\ os_pc = "ready"
    /\ \E vad_timestamps \in VadLists(Max(0, os_self.buffer_start \div Quarter),
                                      os_self.buffer_end \div Quarter),
          lists \in Passed :
          LET r == run_online_segmentation(os_self, vad_timestamps, lists, os_cfg)
          IN  r.raised /\ Leave(r)

NextOnline == SetBuffer \/ RunOnlineSegmentation \/ RunOnlineSegmentationRaise

SpecOnline == InitOnline /\ [][NextOnline]_vars

-----------------------------------------------------------------------------
(* Claims on the online segmentor *)

Covered(t, labels) == \E i \in DOMAIN labels : labels[i][1] <= t /\ t <= labels[i][2]

\* The time points of the session's grid, in ticks.
GridPoints == {q * Quarter : q \in 0..MaxTime}

\* The documented update of the labels: the previous cumulative labels merged
\* with the incoming VAD inside [frame_start, buffer_end].
DocumentedCumulative(c) ==
    merge_float_intervals(
        c.prev_cumulative
            \o get_sub_range_list(<<c.frame_start, c.buffer_end>>, c.vad_timestamps),
        DefaultDecimals, 0)

\* The documented labels for the new segments: the previous cumulative labels
\* inside [cursor_for_old_segments, frame_start] merged with the incoming VAD
\* inside [frame_start, buffer_end].
DocumentedForUpdate(c) ==
    merge_float_intervals(
        get_sub_range_list(IF c.cursor_for_old_segments < c.frame_start
                           THEN <<c.cursor_for_old_segments, c.frame_start>> ELSE <<>>,
                           c.prev_cumulative)
            \o get_sub_range_list(<<c.frame_start, c.buffer_end>>, c.vad_timestamps),
        DefaultDecimals, 0)

\* C8: after every call but the first, the cumulative labels are the previous
\* ones merged with the incoming VAD inside [frame_start, buffer_end], no time
\* point covered before is lost, and the labels the new segments are cut from
\* are the previous cumulative labels inside [cursor, frame_start] merged with
\* that incoming VAD.
C8_CumulativeUpdate ==
    (os_pc = "idle" /\ os_calls >= 2 /\ os_call.branch = "update") =>
        /\ os_self.cumulative_speech_labels = DocumentedCumulative(os_call)
        /\ \A t \in GridPoints :
              Covered(t, os_call.prev_cumulative)
                  => Covered(t, os_self.cumulative_speech_labels)
        /\ os_call.speech_labels_for_update = DocumentedForUpdate(os_call)

ParallelLists(lists) ==
    /\ Len(lists.segment_raw_audio) = Len(lists.segment_range_ts)
    /\ Len(lists.segment_range_ts) = Len(lists.segment_indexes)

StrictlyIncreasing(seq) == \A i \in 1..(Len(seq) - 1) : seq[i] < seq[i + 1]

\* C9: in a session that starts with three empty lists, after every call that
\* returns the three lists have the same length and segment_indexes is
\* strictly increasing; this holds of the lists the call ends with and of the
\* lists the caller holds.
C9_ParallelIncreasing ==
    (os_pc = "idle" /\ os_call.branch \in {"skip", "first", "update"}) =>
        /\ ParallelLists(os_final) /\ StrictlyIncreasing(os_final.segment_indexes)
        /\ ParallelLists(os_lists) /\ StrictlyIncreasing(os_lists.segment_indexes)

\* The last call went through get_new_cursor_for_update (line 2514).
CursorCalled ==
    /\ os_pc = "idle" /\ os_calls >= 1
    /\ os_call.branch \in {"update", "raised"}
    /\ ~(Len(os_call.passed.segment_raw_audio) = 0 /\ Len(os_call.vad_timestamps) > 0)

\* The positions of the ranges that end at or after frame_start.
EndingLater(frame_start, segment_range_ts) ==
    {i \in DOMAIN segment_range_ts : frame_start <= segment_range_ts[i][2]}

\* C26: get_new_cursor_for_update ends without an error for every frame_start
\* and every list of ranges, also when every range ends at or after
\* frame_start; cursor_index is len - popped, within 0..len, and
\* cursor_for_old_segments is the earliest start among the ranges that end at
\* or after frame_start, or frame_start when there is none.
C26_CursorTerminates ==
    CursorCalled =>
        LET rs     == os_call.passed.segment_range_ts
            cur    == get_new_cursor_for_update(os_call.frame_start, rs)
            popped == EndingLater(os_call.frame_start, rs)
        IN  /\ ~cur.raised
            /\ cur.cursor_index = Len(rs) - Cardinality(popped)
            /\ cur.cursor_index \in 0..Len(rs)
            /\ cur.cursor_for_old_segments =
                  IF popped = {} THEN os_call.frame_start
                  ELSE SetMin({rs[i][1] : i \in popped})

\* A call after the first has kept some old segments, dropped others and
\* appended new ones.
C9_Witness ==
    /\ os_pc = "idle" /\ os_calls >= 2 /\ os_call.branch = "update"
    /\ os_call.cursor_index >= 1
    /\ os_call.cursor_index < Len(os_call.passed.segment_indexes)
    /\ Len(os_final.segment_indexes) > os_call.cursor_index

-----------------------------------------------------------------------------
(* Scale schedule: parse_scale_configs *)

MaxScales == 2      \* longest list of a schedule

MaxScaleVal == 3    \* window and shift lengths are 1..MaxScaleVal quarters

\* An argument is a float, a list (ListConfig, list or tuple) or something
\* else such as None; a float is kept as the list of its one value.
FloatArgs == {[kind |-> "float", list |-> <<x>>] : x \in 1..MaxScaleVal}

ListArgs == {[kind |-> "list", list |-> l] : l \in SeqsUpTo(1..MaxScaleVal, MaxScales)}

OtherArg == [kind |-> "other", list |-> <<>>]

\* multiscale_weights: only its type and length are read.
WeightArgs ==
    {[kind |-> "list", list |-> [i \in 1..n |-> 1]] : n \in 0..MaxScales}
        \cup {OtherArg, [kind |-> "float", list |-> <<1>>]}

\* list(x) == sorted(x)[::-1]
SortedDescending(x) == \A i \in 1..(Len(x) - 1) : x[i] >= x[i + 1]

\* zip(window_lengths, shift_lengths)
Zip(ws, ss) == [k \in 1..Min(Len(ws), Len(ss)) |-> <<ws[k], ss[k]>>]

ScaleOutcome(kind, dict, weights) ==
    [outcome |-> kind, scale_dict |-> dict, multiscale_weights |-> weights]

parse_scale_configs(window_lengths_in_sec, shift_lengths_in_sec, multiscale_weights) ==
    LET all_float == window_lengths_in_sec.kind = "float"
                        /\ shift_lengths_in_sec.kind = "float"
        kinds     == {window_lengths_in_sec.kind, shift_lengths_in_sec.kind,
                      multiscale_weights.kind}
        all_list  == kinds = {"list"}
        window_lengths == window_lengths_in_sec.list
        shift_lengths  == shift_lengths_in_sec.list
        weights   == IF all_float THEN <<1>> ELSE multiscale_weights.list
        length_check ==
            /\ Len(window_lengths) = Len(shift_lengths)
            /\ Len(shift_lengths) = Len(weights)
            /\ Len(weights) > 0
        scale_order_check ==
            SortedDescending(window_lengths) /\ SortedDescending(shift_lengths)
        shift_length_check ==
            IF Len(window_lengths) > 1
            THEN \A k \in DOMAIN Zip(window_lengths, shift_lengths) :
                    window_lengths[k] > shift_lengths[k]
            ELSE window_lengths[1] > shift_lengths[1]
    IN  IF all_list \/ all_float
        THEN \* window_lengths[0] or shift_lengths[0] of an empty list
             IF Len(window_lengths) <= 1
                    /\ (Len(window_lengths) = 0 \/ Len(shift_lengths) = 0)
             THEN ScaleOutcome("IndexError", <<>>, <<>>)
             ELSE IF length_check /\ scale_order_check /\ shift_length_check
             THEN ScaleOutcome("dict", Zip(window_lengths, shift_lengths), weights)
             ELSE ScaleOutcome("ValueError", <<>>, <<>>)
        ELSE IF "list" \in kinds THEN ScaleOutcome("ValueError", <<>>, <<>>)
        ELSE ScaleOutcome("None", <<>>, <<>>)

InitScale ==
    /\ sc_args \in [window_lengths_in_sec : FloatArgs \cup ListArgs \cup {OtherArg},
                    shift_lengths_in_sec : FloatArgs \cup ListArgs \cup {OtherArg},
                    multiscale_weights : WeightArgs]
    /\ sc_ret = <<>>
    /\ sc_pc = "call"
    /\ IdleMerge /\ IdleSubseg /\ IdleMsdd /\ IdleEmit /\ IdleDnc /\ IdleClus
    /\ IdleOnline /\ IdleChSel /\ IdleSess /\ IdleMan /\ IdleTurn

CallParseScaleConfigs ==
    /\ sc_pc = "call"
    /\ sc_ret' = parse_scale_configs(sc_args.window_lengths_in_sec,
                                     sc_args.shift_lengths_in_sec,
                                     sc_args.multiscale_weights)
    /\ sc_pc' = "done"
    /\ UNCHANGED <<sc_args, mergeVars, subsegVars, msddVars, emitVars, dncVars, clusVars,
                   onlineVars, chselVars, sessVars, manVars, turnVars>>

NextScale == CallParseScaleConfigs

SpecScale == InitScale /\ [][NextScale]_vars

StrictlyDecreasing(x) == \A i \in 1..(Len(x) - 1) : x[i] > x[i + 1]

ListValued ==
    /\ sc_args.window_lengths_in_sec.kind = "list"
    /\ sc_args.shift_lengths_in_sec.kind = "list"
    /\ sc_args.multiscale_weights.kind = "list"

\* The schedules the documentation admits.
WellFormedSchedule ==
    LET w == sc_args.window_lengths_in_sec.list
        s == sc_args.shift_lengths_in_sec.list
    IN  /\ Len(w) > 0
        /\ Len(w) = Len(s) /\ Len(s) = Len(sc_args.multiscale_weights.list)
        /\ StrictlyDecreasing(w) /\ StrictlyDecreasing(s)
        /\ \A k \in DOMAIN w : w[k] > s[k]

\* C10: a list-valued schedule gets its scale dictionary exactly when the
\* three lists have the same non-zero length, windows and shifts strictly
\* decrease and every window exceeds its shift; any other list-valued schedule
\* raises ValueError.
C10_OnlyWellFormedSchedules ==
    (sc_pc = "done" /\ ListValued) =>
        IF WellFormedSchedule THEN sc_ret.outcome = "dict"
        ELSE sc_ret.outcome = "ValueError"

-----------------------------------------------------------------------------
(* Channel selector: get_selected_channel_embs *)

\* The channel count after lines 663-666: fewer than max_mc_ch_num channels
\* are extended by copies of the first delta_dim channels.
PaddedChannels(ch, max_mc_ch_num) ==
    IF ch < max_mc_ch_num THEN ch + Min(max_mc_ch_num - ch, ch) ELSE ch

\* ch_sim_T over the n channels of merged_mono_scale_embs: an appended copy
\* has the similarities of the channel it repeats.
ChSimT(sim, ch, n) ==
    [t \in DOMAIN sim |-> [c \in 1..n |-> sim[t][((c - 1) % ch) + 1]]]

\* only_pos (line 671), as the set of the positions it marks True.
OnlyPos(ch_sim_T, n) == {c \in 1..n : ColSum(ch_sim_T, c) > 0}

\* torch.sort(row, descending=True)[1]: the channels by descending value.
ArgSortDescending(row, n, tie) ==
    [p \in 1..n |->
        CHOOSE c \in 1..n :
            Cardinality({d \in 1..n :
                row[d] > row[c] \/ (row[d] = row[c] /\ Before(d, c, tie))}) = p - 1]

\* x.repeat(1, total_rep)[:, :n] for one row.
RepeatTo(x, n) == [p \in 1..n |-> x[((p - 1) % Len(x)) + 1]]

\* torch.sort(row, descending=True)[0] of a row of indices.
SortDescending(x) ==
    LET asc == SortAsc(x) IN [p \in 1..Len(x) |-> asc[Len(x) + 1 - p]]

\* sorted_ch_inds of line 689, or the ValueError of line 681.  Channels are
\* numbered from 1.
get_selected_channel_embs(sim, ch, max_mc_ch_num, tie) ==
    LET n             == PaddedChannels(ch, max_mc_ch_num)
        ch_sim_T      == ChSimT(sim, ch, n)
        only_pos      == OnlyPos(ch_sim_T, n)
        ArgSort(t)    == ArgSortDescending(ch_sim_T[t], n, tie)
        \* lines 682-686: the mask selects columns of arg_sort_inds
        Kept(t)       == IF Cardinality(only_pos) < n
                         THEN RepeatTo(SelectIdx(ArgSort(t), only_pos, 1), n)
                         ELSE ArgSort(t)
        \* lines 687-688
        Cut(t)        == SubSeq(Kept(t), 1, Min(n, max_mc_ch_num))
    IN  IF only_pos = {}
        THEN [raised |-> TRUE, only_pos |-> only_pos, sorted_ch_inds |-> <<>>]
        ELSE [raised |-> FALSE, only_pos |-> only_pos,
              sorted_ch_inds |-> [t \in DOMAIN sim |-> SortDescending(Cut(t))]]

MaxInCh == 3            \* channels of ms_emb_seq

MaxMcChNum == 4         \* max_mc_ch_num ranges over 1..MaxMcChNum

ChFrames == 2           \* time steps of ms_emb_seq

\* Values of the mean cosine similarity that occur in the model.
SimLevels == {0 - 1, 0, 1}

\* A channel's mean similarity includes its similarity to itself, so it is
\* negative only when at least two other channels oppose it.
Realisable(sim, ch) ==
    ch <= 2 => \A t \in DOMAIN sim : \A c \in 1..ch : sim[t][c] >= 0

InitChSel ==
    /\ \E ch \in 1..MaxInCh :
          cs_args \in [sim : [1..ChFrames -> [1..ch -> SimLevels]],
                       ch : {ch},
                       max_mc_ch_num : 1..MaxMcChNum,
                       tie : TieBreaks]
    /\ Realisable(cs_args.sim, cs_args.ch)
    /\ cs_ret = <<>>
    /\ cs_pc = "call"
    /\ IdleMerge /\ IdleSubseg /\ IdleMsdd /\ IdleEmit /\ IdleDnc /\ IdleClus
    /\ IdleOnline /\ IdleScale /\ IdleSess /\ IdleMan /\ IdleTurn

CallGetSelectedChannelEmbs ==
    /\ cs_pc = "call"
    /\ cs_ret' = get_selected_channel_embs(cs_args.sim, cs_args.ch,
                                           cs_args.max_mc_ch_num, cs_args.tie)
    /\ cs_pc' = "done"
    /\ UNCHANGED <<cs_args, mergeVars, subsegVars, msddVars, emitVars, dncVars, clusVars,
                   onlineVars, scaleVars, sessVars, manVars, turnVars>>

NextChSel == CallGetSelectedChannelEmbs

SpecChSel == InitChSel /\ [][NextChSel]_vars

\* Some input channel has a positive score.
SomePositive == \E c \in 1..cs_args.ch : ColSum(cs_args.sim, c) > 0

\* C17: with at least one positive-score channel, the channel dimension of
\* the returned tensor is exactly max_mc_ch_num, for every input channel
\* count C >= 1.
C17_WidthIsMaxMcChNum ==
    (cs_pc = "done" /\ SomePositive) =>
        /\ ~cs_ret.raised
        /\ \A t \in DOMAIN cs_ret.sorted_ch_inds :
              Len(cs_ret.sorted_ch_inds[t]) = cs_args.max_mc_ch_num

\* Some but not all channels of the padded tensor have a positive score.
PartlySilent ==
    /\ cs_ret.only_pos # {}
    /\ cs_ret.only_pos # 1..PaddedChannels(cs_args.ch, cs_args.max_mc_ch_num)

\* C18: when some but not all channels score non-positive, every gathered
\* channel index is a positive-score channel; when none scores positive the
\* call raises ValueError.
C18_OnlyPositiveGathered ==
    cs_pc = "done" =>
        /\ ~SomePositive => cs_ret.raised
        /\ (SomePositive /\ PartlySilent) =>
              \A t \in DOMAIN cs_ret.sorted_ch_inds :
                 \A p \in DOMAIN cs_ret.sorted_ch_inds[t] :
                    cs_ret.sorted_ch_inds[t][p] \in cs_ret.only_pos

-----------------------------------------------------------------------------
(* One session: get_ms_embs_and_ts, the clusterer, get_cluster_labels_infer *)

\* The probability 1.0; probabilities and thresholds are in thousandths.
ProbOne == 10 * 100

\* bins=50 of torch.histogram.
NumBins == 50

\* The knee is searched in hist_ct_norm[0:10] - hist_ct_norm[1:11].
KneeBins == 10

\* The largest number of finest-scale segments of a session.
MaxFine == 3

\* The speech probabilities of a finest-scale segment; none of them, and no
\* mean of up to MaxFine + 1 of them, falls on a bin edge.
ProbLevels == {7, 27, 127, 907}

\* The values of the argument vad_threshold.
VadThresholds == {0, 100}

\* The labels the clusterer hands out.
ClusterIds == {0, 1}

RECURSIVE SortedSeqOf(_)
SortedSeqOf(S) ==
    IF S = {} THEN <<>> ELSE LET m == SetMin(S) IN <<m>> \o SortedSeqOf(S \ {m})

\* torch.unique(row, return_counts=True)[1]: the count of every distinct
\* value, in ascending order of the values.
rep_counts(row) ==
    LET u == SortedSeqOf(SeqRange(row))
    IN  [k \in DOMAIN u |-> Cardinality({t \in DOMAIN row : row[t] = u[k]})]

\* torch.cumsum(rep_counts) - 1: the zero-based last position of each run.
base_seg_inds(row) ==
    LET c == rep_counts(row)
    IN  [k \in DOMAIN c |-> SumOver(c, 1..k) - 1]

vad_index_list(row) ==
    LET b == base_seg_inds(row) IN <<0>> \o [k \in DOMAIN b |-> b[k] + 1]

\* torch.mean(vad_probs[a:b]) as the fraction <<sum, count>>; the slice
\* clips at the end of vad_probs.
SliceMean(vad_probs, a, b) ==
    LET S == {t \in DOMAIN vad_probs : a < t /\ t <= b}
    IN  <<SumOver(vad_probs, S), Cardinality(S)>>

vad_prob_mat(vad_probs, row) ==
    LET v == vad_index_list(row)
    IN  [k \in 1..(Len(v) - 1) |-> SliceMean(vad_probs, v[k], v[k + 1])]

\* The bin of torch.histogram(bins=50, range=(0, 1)) the fraction falls in:
\* bins are closed on the left, the last one on both sides.
BinOf(frac) ==
    IF frac[1] = frac[2] * ProbOne THEN NumBins - 1
    ELSE (frac[1] * NumBins) \div (frac[2] * ProbOne)

hist_ct(mat) == [i \in 0..(NumBins - 1) |-> Cardinality({k \in DOMAIN mat : BinOf(mat[k]) = i})]

\* bins[i] of torch.histogram: the i-th of the 51 edges of (0, 1).
bins(i) == (i * ProbOne) \div NumBins

\* torch.argmax over every adjacent difference of the histogram.
vad_thres_knee_argmax_all(hist, n) ==
    LET d == [i \in 0..(NumBins - 2) |-> hist[i] - hist[i + 1]]
    IN  CHOOSE i \in DOMAIN d :
           /\ \A j \in DOMAIN d : d[j] <= d[i]
           /\ \A j \in DOMAIN d : j < i => d[j] < d[i]

\* torch.argmax(hist_ct_norm[0:n] - hist_ct_norm[1:n+1]): the first index of
\* the largest difference.  hist_ct_norm is hist_ct over its positive sum, so
\* the differences of the counts order as the differences of the norms do.
vad_thres_knee_argmax(hist, n) ==
    LET d == [i \in 0..(n - 1) |-> hist[i] - hist[i + 1]]
    IN  CHOOSE i \in DOMAIN d :
           /\ \A j \in DOMAIN d : d[j] <= d[i]
           /\ \A j \in DOMAIN d : j < i => d[j] < d[i]

get_ms_embs_and_ts(vad_probs, row, vad_threshold) ==
    LET mat       == vad_prob_mat(vad_probs, row)
        hist      == hist_ct(mat)
        knee      == vad_thres_knee_argmax(hist, KneeBins)
        threshold == bins(knee + 1) + vad_threshold
    IN  [base_seg_inds       |-> base_seg_inds(row),
         vad_prob_mat        |-> mat,
         hist_ct             |-> hist,
         knee                |-> knee,
         vad_threshold       |-> threshold,
         vad_decision_scaled |-> [k \in DOMAIN mat |-> mat[k][1] > threshold * mat[k][2]],
         vad_decision_base   |-> [t \in DOMAIN vad_probs |-> vad_probs[t] > threshold]]

\* The number of True entries of mask among its first k.
TrueUpTo(mask, k) == Cardinality({j \in DOMAIN mask : j <= k /\ mask[j]})

\* clus_labels_infer_org_scale after line 535: T + 1 entries, the k-th
\* VAD-positive position carrying the k-th cluster label, the others -1.
clus_labels_infer_org_scale(ms, cluster_labels) ==
    [b \in 0..Len(ms.base_seg_inds) |->
        IF b + 1 \in DOMAIN ms.vad_decision_scaled /\ ms.vad_decision_scaled[b + 1]
        THEN (cluster_labels[TrueUpTo(ms.vad_decision_scaled, b + 1)] + 1) - 1
        ELSE 0 - 1]

\* Line 542 without the mask vad_decision_base: every finest-scale segment
\* reads the label of its base-scale segment.
get_cluster_labels_infer_unmasked(ms, cluster_labels, row) ==
    LET org == clus_labels_infer_org_scale(ms, cluster_labels)
    IN  IF Len(cluster_labels) # TrueUpTo(ms.vad_decision_scaled, Len(ms.vad_decision_scaled))
           \/ \E t \in DOMAIN row : row[t] \notin DOMAIN org
        THEN [raised |-> TRUE, cluster_labels_infer |-> <<>>]
        ELSE [raised |-> FALSE,
              cluster_labels_infer |-> [t \in DOMAIN row |-> org[row[t]]]]

\* Lines 533-543.  The masked assignment of line 534 raises when the number
\* of labels is not the number of True entries, the gather of line 542 when
\* an index is past the end of clus_labels_infer_org_scale.
get_cluster_labels_infer(ms, cluster_labels, row) ==
    LET org  == clus_labels_infer_org_scale(ms, cluster_labels)
        base == ms.vad_decision_base
    IN  IF Len(cluster_labels) # TrueUpTo(ms.vad_decision_scaled, Len(ms.vad_decision_scaled))
           \/ \E t \in DOMAIN row : t \in DOMAIN base /\ base[t] /\ row[t] \notin DOMAIN org
        THEN [raised |-> TRUE, cluster_labels_infer |-> <<>>]
        ELSE [raised |-> FALSE,
              cluster_labels_infer |->
                  [t \in DOMAIN row |->
                      IF t \in DOMAIN base /\ base[t] THEN org[row[t]] ELSE 0 - 1]]

\* Rows scale_map[base_scale_idx] of nearest-centre maps: the first
\* finest-scale segment is covered by base segment 0 and the covering index
\* stays or steps by one from a segment to the next.
ScaleMapRows(n) ==
    {m \in [1..n -> 0..(n - 1)] :
        /\ m[1] = 0
        /\ \A t \in 2..n : m[t] - m[t - 1] \in {0, 1}}

InitSess ==
    /\ \E n \in 1..MaxFine :
          se_in \in [vad_probs : [1..n -> ProbLevels],
                     row : ScaleMapRows(n),
                     vad_threshold : VadThresholds]
    /\ se_ms = <<>> /\ se_labels = <<>> /\ se_infer = <<>>
    /\ se_pc = "start"
    /\ IdleMerge /\ IdleSubseg /\ IdleMsdd /\ IdleEmit /\ IdleDnc /\ IdleClus
    /\ IdleOnline /\ IdleScale /\ IdleChSel /\ IdleMan /\ IdleTurn

SessOthers == <<mergeVars, subsegVars, msddVars, emitVars, dncVars, clusVars, onlineVars,
                scaleVars, chselVars, manVars, turnVars>>

\* Lines 734-740.
CallGetMsEmbsAndTs ==
    /\ se_pc = "start"
    /\ se_ms' = get_ms_embs_and_ts(se_in.vad_probs, se_in.row, se_in.vad_threshold)
    /\ se_pc' = "masked"
    /\ UNCHANGED <<se_in, se_labels, se_infer, SessOthers>>

\* Lines 764-773: the clusterer labels every VAD-positive base segment.
ForwardEmbs ==
    /\ se_pc = "masked"
    /\ LET n == TrueUpTo(se_ms.vad_decision_scaled, Len(se_ms.vad_decision_scaled))
       IN  se_labels' \in [1..n -> ClusterIds]
    /\ se_pc' = "clustered"
    /\ UNCHANGED <<se_in, se_ms, se_infer, SessOthers>>

\* Lines 775-780.
CallGetClusterLabelsInfer ==
    /\ se_pc = "clustered"
    /\ se_infer' = get_cluster_labels_infer(se_ms, se_labels, se_in.row)
    /\ se_pc' = "done"
    /\ UNCHANGED <<se_in, se_ms, se_labels, SessOthers>>

NextSess ==
    \/ CallGetMsEmbsAndTs
    \/ ForwardEmbs
    \/ CallGetClusterLabelsInfer

SpecSess == InitSess /\ [][NextSess]_vars

\* The histogram of the example: h = [0.5, 0.1, 0.05, ...] over 20 values,
\* the remaining 0.35 in one far bin.
ExampleHist ==
    [i \in 0..(NumBins - 1) |->
        IF i = 0 THEN 10 ELSE IF i = 1 THEN 2 ELSE IF i = 2 THEN 1
        ELSE IF i = 40 THEN 7 ELSE 0]

\* C21: the threshold is bins[i* + 1] + vad_threshold for the first index i*
\* in 0..9 of the largest h[i] - h[i+1], so it lies between
\* vad_threshold + 0.02 and vad_threshold + 0.20 (0.12 for the example
\* histogram and vad_threshold 0.1), and both masks are the strict
\* comparison prob > threshold.
C21_KneeThreshold ==
    se_pc # "idle" /\ se_pc # "start" =>
        LET hist == se_ms.hist_ct
            d    == [i \in 0..(KneeBins - 1) |-> hist[i] - hist[i + 1]]
            thr  == se_ms.vad_threshold
        IN  /\ se_ms.knee \in 0..(KneeBins - 1)
            /\ \A j \in 0..(KneeBins - 1) : d[j] <= d[se_ms.knee]
            /\ \A j \in 0..(se_ms.knee - 1) : d[j] < d[se_ms.knee]
            /\ thr = bins(se_ms.knee + 1) + se_in.vad_threshold
            /\ thr >= se_in.vad_threshold + 20
            /\ thr <= se_in.vad_threshold + 200
            /\ bins(vad_thres_knee_argmax(ExampleHist, KneeBins) + 1) + 100 = 120
            /\ \A k \in DOMAIN se_ms.vad_prob_mat :
                  se_ms.vad_decision_scaled[k] <=>
                     se_ms.vad_prob_mat[k][1] > thr * se_ms.vad_prob_mat[k][2]
            /\ \A t \in DOMAIN se_in.vad_probs :
                  se_ms.vad_decision_base[t] <=> se_in.vad_probs[t] > thr

\* A knee past the first bin, with a base segment on either side of the
\* threshold.
C21_Witness ==
    /\ se_pc = "masked"
    /\ se_ms.knee > 0
    /\ \E k \in DOMAIN se_ms.vad_decision_scaled : se_ms.vad_decision_scaled[k]
    /\ \E k \in DOMAIN se_ms.vad_decision_scaled : ~se_ms.vad_decision_scaled[k]

\* The base-scale segment (one-based) covering finest-scale segment t.
CoveringBase(t) == se_in.row[t] + 1

\* C28: cluster_labels_infer has one entry per finest-scale segment; entry t
\* is -1 when vad_decision_base[t] is False or the covering base segment is
\* VAD-masked, else the cluster label of the covering base segment; so every
\* label of cluster_labels occurs in the result.
C28_LabelsExpanded ==
    se_pc = "done" =>
        /\ ~se_infer.raised
        /\ Len(se_infer.cluster_labels_infer) = Len(se_in.vad_probs)
        /\ \A t \in DOMAIN se_in.vad_probs :
              se_infer.cluster_labels_infer[t] =
                 IF ~se_ms.vad_decision_base[t]
                    \/ ~se_ms.vad_decision_scaled[CoveringBase(t)]
                 THEN 0 - 1
                 ELSE se_labels[TrueUpTo(se_ms.vad_decision_scaled, CoveringBase(t))]
        /\ SeqRange(se_labels) \subseteq SeqRange(se_infer.cluster_labels_infer)

\* A base segment of two finest-scale segments is VAD-positive while one of
\* its finest-scale segments is not, and two labels are handed out.
C28_Witness ==
    /\ se_pc = "done"
    /\ SeqRange(se_labels) = ClusterIds
    /\ \E t \in DOMAIN se_in.vad_probs :
          /\ ~se_ms.vad_decision_base[t]
          /\ se_ms.vad_decision_scaled[CoveringBase(t)]

-----------------------------------------------------------------------------
(* The manifest: audio_rttm_map and the lookups of make_rttm_with_overlap *)

\* The largest number of lines of a manifest.
MaxLines == 2

\* json null, read as None.
None == "None"

\* The value a line has no uniq_id key for.
Absent == "absent"

Stems == {"a", "b"}

\* A manifest line: its uniq_id (Absent, None or a name) and the stem of
\* its audio_filepath.
ManifestLines == [uniq_id : {Absent, None, "a", "u"}, audio_filepath : Stems]

\* os.path.splitext(os.path.basename(filepath))[0] of a path with that stem.
get_uniqname_from_filepath(filepath) == filepath

get_uniq_id_from_manifest_line(line) ==
    IF line.uniq_id # Absent /\ line.uniq_id # None
    THEN line.uniq_id
    ELSE get_uniqname_from_filepath(line.audio_filepath)

\* uniqname of lines 131-134, with attach_dur False.
uniqname(line) ==
    IF line.uniq_id # Absent
    THEN line.uniq_id
    ELSE get_uniqname_from_filepath(line.audio_filepath)

\* The first line whose key is already in the map, or 0.
FirstDuplicate(lines) ==
    LET dup == {i \in DOMAIN lines : \E j \in 1..(i - 1) : uniqname(lines[j]) = uniqname(lines[i])}
    IN  IF dup = {} THEN 0 ELSE SetMin(dup)

InitMan ==
    /\ mf_in \in SeqsUpTo(ManifestLines, MaxLines)
    /\ mf_map = <<>> /\ mf_seen = 0
    /\ mf_pc = "call"
    /\ IdleMerge /\ IdleSubseg /\ IdleMsdd /\ IdleEmit /\ IdleDnc /\ IdleClus
    /\ IdleOnline /\ IdleScale /\ IdleChSel /\ IdleSess /\ IdleTurn

ManOthers == <<mergeVars, subsegVars, msddVars, emitVars, dncVars, clusVars, onlineVars,
               scaleVars, chselVars, sessVars, turnVars>>

\* Line 2349, audio_rttm_map returning the map.
CallAudioRttmMap ==
    /\ mf_pc = "call"
    /\ FirstDuplicate(mf_in) = 0
    /\ mf_map' = [k \in {uniqname(mf_in[i]) : i \in DOMAIN mf_in} |->
                     CHOOSE i \in DOMAIN mf_in : uniqname(mf_in[i]) = k]
    /\ mf_pc' = "loop"
    /\ UNCHANGED <<mf_in, mf_seen, ManOthers>>

\* Line 2349, audio_rttm_map raising the KeyError of line 139.
CallAudioRttmMapRaise ==
    /\ mf_pc = "call"
    /\ FirstDuplicate(mf_in) # 0
    /\ mf_pc' = "duplicate"
    /\ UNCHANGED <<mf_in, mf_map, mf_seen, ManOthers>>

\* Lines 2355-2357 for the next line of the manifest.
LookupLine ==
    /\ mf_pc = "loop"
    /\ mf_seen < Len(mf_in)
    /\ get_uniq_id_from_manifest_line(mf_in[mf_seen + 1]) \in DOMAIN mf_map
    /\ mf_seen' = mf_seen + 1
    /\ UNCHANGED <<mf_in, mf_map, mf_pc, ManOthers>>

\* Line 2357 raising KeyError.
LookupLineRaise ==
    /\ mf_pc = "loop"
    /\ mf_seen < Len(mf_in)
    /\ get_uniq_id_from_manifest_line(mf_in[mf_seen + 1]) \notin DOMAIN mf_map
    /\ mf_pc' = "keyerror"
    /\ UNCHANGED <<mf_in, mf_map, mf_seen, ManOthers>>

\* The loop of line 2353 ends.
LookupEnd ==
    /\ mf_pc = "loop"
    /\ mf_seen = Len(mf_in)
    /\ mf_pc' = "returned"
    /\ UNCHANGED <<mf_in, mf_map, mf_seen, ManOthers>>

NextMan ==
    \/ CallAudioRttmMap
    \/ CallAudioRttmMapRaise
    \/ LookupLine
    \/ LookupLineRaise
    \/ LookupEnd

SpecMan == InitMan /\ [][NextMan]_vars

\* C24: audio_rttm_map and get_uniq_id_from_manifest_line give every line of
\* the manifest the same id (the uniq_id when given and non-null, else the
\* filename stem), and every lookup AUDIO_RTTM_MAP[uniq_id] of
\* make_rttm_with_overlap finds the entry of its line.
C24_SameIdPerLine ==
    mf_pc \in {"loop", "keyerror", "returned"} =>
        /\ \A i \in DOMAIN mf_in :
              uniqname(mf_in[i]) = get_uniq_id_from_manifest_line(mf_in[i])
        /\ mf_pc # "keyerror"
        /\ \A i \in 1..mf_seen :
              mf_map[get_uniq_id_from_manifest_line(mf_in[i])] = i

-----------------------------------------------------------------------------
(* Speaker turns: generate_cluster_labels and labels_to_rttmfile *)

\* The largest number of segments handed to generate_cluster_labels.
MaxSegs == 3

\* The latest segment boundary, in quarters of a second.
MaxSegT == 3

\* A stamp "start end speaker" is the record of its three fields: str() of a
\* float and float() of that string give the float back.
Stamp(start, end, speaker) == [start |-> start, end |-> end, speaker |-> speaker]

\* The loop of get_contiguous_stamps from line i on; start is the start of
\* lines[i] after line 307 has moved it.
RECURSIVE ContiguousFrom(_, _, _)
ContiguousFrom(lines, i, start) ==
    IF i = Len(lines) THEN <<Stamp(start, lines[i].end, lines[i].speaker)>>
    ELSE IF lines[i].end > lines[i + 1].start
         THEN LET avg == (lines[i + 1].start + lines[i].end) \div 2
              IN  <<Stamp(start, avg, lines[i].speaker)>> \o ContiguousFrom(lines, i + 1, avg)
         ELSE <<Stamp(start, lines[i].end, lines[i].speaker)>>
                 \o ContiguousFrom(lines, i + 1, lines[i + 1].start)

\* The stamps as they are given, overlaps left in.
get_contiguous_stamps_unsplit(stamps) == stamps

get_contiguous_stamps(stamps) ==
    IF stamps = <<>> THEN <<>> ELSE ContiguousFrom(stamps, 1, stamps[1].start)

\* The loop of merge_stamps from stamp i on; start is the start of stamps[i]
\* after line 323 has moved it.
RECURSIVE MergeFrom(_, _, _)
MergeFrom(stamps, i, start) ==
    IF i = Len(stamps) THEN <<Stamp(start, stamps[i].end, stamps[i].speaker)>>
    ELSE IF stamps[i].end = stamps[i + 1].start /\ stamps[i].speaker = stamps[i + 1].speaker
         THEN MergeFrom(stamps, i + 1, start)
         ELSE <<Stamp(start, stamps[i].end, stamps[i].speaker)>>
                 \o MergeFrom(stamps, i + 1, stamps[i + 1].start)

merge_stamps(lines) ==
    IF lines = <<>> THEN <<>> ELSE MergeFrom(lines, 1, lines[1].start)

\* diar_hyp of generate_cluster_labels.
generate_cluster_labels(segment_ranges, cluster_labels) ==
    LET lines == [idx \in DOMAIN cluster_labels |->
                    Stamp(segment_ranges[idx][1], segment_ranges[idx][2], cluster_labels[idx])]
        cont_lines == get_contiguous_stamps(lines)
    IN  merge_stamps(cont_lines)

\* The start and duration fields of the RTTM lines, in milliseconds.
labels_to_rttmfile(labels) ==
    [j \in DOMAIN labels |->
        [start    |-> Format3f(labels[j].start),
         duration |-> Format3f(labels[j].end - labels[j].start),
         speaker  |-> labels[j].speaker]]

\* Segments on the quarter-second grid, in start order.
SegmentRanges(n) ==
    {r \in [1..n -> {<<a * Quarter, b * Quarter>> : a, b \in 0..MaxSegT}] :
        /\ \A i \in 1..n : r[i][1] < r[i][2]
        /\ \A i \in 1..(n - 1) : r[i][1] <= r[i + 1][1]}

InitTurn ==
    /\ \E n \in 0..MaxSegs :
          tn_in \in [segment_ranges : SegmentRanges(n), cluster_labels : [1..n -> ClusterIds]]
    /\ tn_hyp = <<>> /\ tn_rttm = <<>>
    /\ tn_pc = "call"
    /\ IdleMerge /\ IdleSubseg /\ IdleMsdd /\ IdleEmit /\ IdleDnc /\ IdleClus
    /\ IdleOnline /\ IdleScale /\ IdleChSel /\ IdleSess /\ IdleMan

TurnOthers == <<mergeVars, subsegVars, msddVars, emitVars, dncVars, clusVars, onlineVars,
                scaleVars, chselVars, sessVars, manVars>>

\* Line 799.
CallGenerateClusterLabels ==
    /\ tn_pc = "call"
    /\ tn_hyp' = generate_cluster_labels(tn_in.segment_ranges, tn_in.cluster_labels)
    /\ tn_pc' = "labelled"
    /\ UNCHANGED <<tn_in, tn_rttm, TurnOthers>>

\* Line 801.
CallLabelsToRttmfile ==
    /\ tn_pc = "labelled"
    /\ tn_rttm' = labels_to_rttmfile(tn_hyp)
    /\ tn_pc' = "written"
    /\ UNCHANGED <<tn_in, tn_hyp, TurnOthers>>

NextTurn ==
    \/ CallGenerateClusterLabels
    \/ CallLabelsToRttmfile

SpecTurn == InitTurn /\ [][NextTurn]_vars

\* The ends of the segments do not decrease.
EndsNonDecreasing(r) == \A i \in 1..(Len(r) - 1) : r[i][2] <= r[i + 1][2]

\* The segments of one speech range: every segment reaches the next one.
OneSpeechRange(r) == r # <<>> /\ \A i \in 1..(Len(r) - 1) : r[i][2] >= r[i + 1][1]

\* The subsegments of the documented 5-s range, as [start, end] ranges.
ExampleRanges ==
    LET subs == get_subsegments(SingleScaleCase.offset, SingleScaleCase.window,
                                SingleScaleCase.shift, SingleScaleCase.duration).subsegments
    IN  [k \in DOMAIN subs |-> <<subs[k][1], subs[k][1] + subs[k][2]>>]

\* C25: for segments in start order with non-decreasing ends, the turns of
\* generate_cluster_labels have start <= end and do not overlap, no two
\* consecutive turns touch with the same speaker, and the segments of one
\* speech range with one label give the single turn from the first start to
\* the last end; the 5-s range labelled 0 gives the RTTM line
\* 0.000 5.000 speaker_0.
C25_TurnsDisjoint ==
    (tn_pc # "idle" /\ tn_pc # "call" /\ EndsNonDecreasing(tn_in.segment_ranges)) =>
        LET r == tn_in.segment_ranges
            n == Len(r)
        IN  /\ \A j \in DOMAIN tn_hyp : tn_hyp[j].start <= tn_hyp[j].end
            /\ \A j, k \in DOMAIN tn_hyp : j < k => tn_hyp[j].end <= tn_hyp[k].start
            /\ \A j \in 1..(Len(tn_hyp) - 1) :
                  ~(/\ tn_hyp[j].end = tn_hyp[j + 1].start
                    /\ tn_hyp[j].speaker = tn_hyp[j + 1].speaker)
            /\ (/\ OneSpeechRange(r)
                /\ \A i \in 1..n : tn_in.cluster_labels[i] = tn_in.cluster_labels[1]) =>
                  tn_hyp = <<Stamp(r[1][1], r[n][2], tn_in.cluster_labels[1])>>
            /\ labels_to_rttmfile(
                   generate_cluster_labels(ExampleRanges, [k \in DOMAIN ExampleRanges |-> 0]))
               = <<[start |-> 0, duration |-> 5000, speaker |-> 0]>>

\* Three overlapping segments, two speakers: an overlap is split and two
\* segments are merged into one turn.
C25_Witness ==
    /\ tn_pc = "written"
    /\ Len(tn_in.segment_ranges) = 3
    /\ EndsNonDecreasing(tn_in.segment_ranges)
    /\ \A i \in 1..2 : tn_in.segment_ranges[i][2] > tn_in.segment_ranges[i + 1][1]
    /\ Len(tn_hyp) = 2

====
